---- MODULE Spec2Model ----
(***************************************************************************)
(* State-machine model of the vetpintar backend: the Prisma tables the     *)
(* services and controllers read and write, and one action per request     *)
(* handler.  A table is a function from the ids of its rows to records.    *)
(***************************************************************************)
EXTENDS Integers, Sequences, FiniteSets, TLC

VARIABLES
    users,            \* user table: id -> [isActive, role]
    clinics,          \* clinic table: set of the ids of its rows
    clinicAccesses,   \* ClinicAccess rows: set of [id, userId, clinicId, accessRole]
    patients,         \* patient table: id -> [clinicId, ownerId, name, isActive]
    appointments,     \* appointment table: id -> appointment row
    medicalRecords,   \* medical record table: id -> [clinicId, patientId, veterinarianId, diagnosis]
    products,         \* product table: id -> [clinicId, sku, isActive]
    invoiceItems,     \* invoice item rows: set of [invoiceId, productId]
    invoices,         \* invoice table: id -> [clinicId, patientId, ownerId, totalAmount, status]
    payments,         \* payment table: id -> [invoiceId, amount, status]
    tasks,            \* in-flight asynchronous service calls: task id -> local state
    last              \* the last answered request: [op, code, ...]

vars == <<users, clinics, clinicAccesses, patients, appointments, medicalRecords,
          products, invoiceItems, invoices, payments, tasks, last>>

----------------------------------------------------------------------------
(* Bounds of the model. *)

MaxAppointments == 2
MaxUpdatedFields == 1
MaxPayments == 2
MaxTasks == 2
MaxMedicalRecords == 1
MaxClinicAccesses == 3
MaxStock == 3

(* Values the requests draw their inputs from. *)

Undefined == "undefined"      \* a field absent from a request body or token
NoId == 0                     \* an absent numeric id (row ids start at 1)
None == <<>>                  \* an absent number; a present number n is <<n>>

Clinics == {"c1", "c2"}
UserIds == {"u1", "u2"}
PatientIds == {"p1", "p2"}
Dates == {"d1"}
\* "HH:MM" strings, held as the fields that split(':') yields
Times == {<<9, 0>>, <<9, 30>>}
DurationInputs == {None, <<0>>, <<60>>}
AppointmentStatus ==
    {"SCHEDULED", "CONFIRMED", "IN_PROGRESS", "COMPLETED", "CANCELLED", "NO_SHOW"}
StatusInputs == {"SCHEDULED", "CANCELLED"}

AppointmentIds == 1..MaxAppointments

\* JavaScript truthiness of an optional number: undefined and 0 are falsy
TruthyNum(n) == n # None /\ n[1] # 0
\* a || b on optional numbers, b a number
OrElse(n, b) == IF TruthyNum(n) THEN n[1] ELSE b

NoRows == <<>>
Remove(table, id) == [i \in (DOMAIN table) \ {id} |-> table[i]]
Insert(table, id, row) == [i \in (DOMAIN table) \cup {id} |-> IF i = id THEN row ELSE table[i]]

\* Prisma's where { clinicId }: an undefined value adds no filter
ClinicFilter(clinicId, row) == clinicId = Undefined \/ row.clinicId = clinicId

----------------------------------------------------------------------------
(* AppointmentService *)

\* appointmentTime.split(':').map(Number); hours * 60 + minutes
ParseMinutes(appointmentTime) == appointmentTime[1] * 60 + appointmentTime[2]

\* the overlap test without its first disjunct (a request starting inside an
\* existing appointment and ending after it goes unnoticed)
OverlapsWithoutStartInside(startMinutes, endMinutes, existingStartMinutes, existingEndMinutes) ==
    \/ (endMinutes > existingStartMinutes /\ endMinutes <= existingEndMinutes)
    \/ (startMinutes <= existingStartMinutes /\ endMinutes >= existingEndMinutes)

\* the overlap test in the loop of checkScheduleConflict
Overlaps(startMinutes, endMinutes, existingStartMinutes, existingEndMinutes) ==
    \/ (startMinutes >= existingStartMinutes /\ startMinutes < existingEndMinutes)
    \/ (endMinutes > existingStartMinutes /\ endMinutes <= existingEndMinutes)
    \/ (startMinutes <= existingStartMinutes /\ endMinutes >= existingEndMinutes)

\* the rows that findMany returns in checkScheduleConflict
ConflictCandidates(table, veterinarianId, appointmentDate, excludeAppointmentId) ==
    {i \in DOMAIN table :
        /\ table[i].veterinarianId = veterinarianId
        /\ table[i].appointmentDate = appointmentDate
        /\ table[i].status \notin {"CANCELLED", "NO_SHOW"}
        /\ (excludeAppointmentId # NoId => i # excludeAppointmentId)}

checkScheduleConflict(table, veterinarianId, appointmentDate, appointmentTime, duration, excludeAppointmentId) ==
    LET startMinutes == ParseMinutes(appointmentTime)
        endMinutes == startMinutes + duration
    IN \E i \in ConflictCandidates(table, veterinarianId, appointmentDate,
                                    excludeAppointmentId) :
          LET existingStartMinutes == ParseMinutes(table[i].appointmentTime)
              existingEndMinutes == existingStartMinutes + table[i].duration
          IN Overlaps(startMinutes, endMinutes, existingStartMinutes, existingEndMinutes)

\* prisma.patient.findFirst({ id, clinicId, isActive: true })
ActivePatientFound(patientId, clinicId) ==
    /\ patientId \in DOMAIN patients
    /\ ClinicFilter(clinicId, patients[patientId])
    /\ patients[patientId].isActive

\* prisma.user.findFirst({ id, role in [VETERINARIAN, ADMIN], isActive, clinicAccesses some clinicId })
VeterinarianFound(veterinarianId, clinicId) ==
    /\ veterinarianId \in DOMAIN users
    /\ users[veterinarianId].role \in {"VETERINARIAN", "ADMIN"}
    /\ users[veterinarianId].isActive
    /\ \E ca \in clinicAccesses :
          ca.userId = veterinarianId /\ (clinicId = Undefined \/ ca.clinicId = clinicId)

\* the rule of the specification: start_A < end_B && start_B < end_A
RuleOverlaps(startA, endA, startB, endB) == startA < endB /\ startB < endA

\* whether some appointment of the veterinarian on the date, neither cancelled nor
\* no-show nor the excluded one, overlaps [start, start + duration) by the rule
RuleConflict(table, veterinarianId, appointmentDate, appointmentTime, duration, excludeAppointmentId) ==
    \E i \in DOMAIN table :
        /\ table[i].veterinarianId = veterinarianId
        /\ table[i].appointmentDate = appointmentDate
        /\ table[i].status \notin {"CANCELLED", "NO_SHOW"}
        /\ i # excludeAppointmentId
        /\ RuleOverlaps(ParseMinutes(appointmentTime),
                        ParseMinutes(appointmentTime) + duration,
                        ParseMinutes(table[i].appointmentTime),
                        ParseMinutes(table[i].appointmentTime) + table[i].duration)

\* what a request observed: checked is the answer of checkScheduleConflict when
\* the handler called it, rule the answer of the rule on the same arguments,
\* changed whether the appointment table differs after the request
Observed(op, code, call, rule, changed) ==
    [op |-> op, code |-> code,
     checked |-> IF call = {} THEN "not called"
                 ELSE IF TRUE \in call THEN "conflict" ELSE "free",
     rule |-> rule, changed |-> changed]

UnusedAppointmentIds == AppointmentIds \ DOMAIN appointments

AppointmentTablesUnchanged ==
    UNCHANGED <<clinics, users, clinicAccesses, patients, medicalRecords, products,
                invoiceItems, invoices, payments, tasks>>

\* the answers of checkScheduleConflict in createAppointment: none when the
\* handler returns or throws before the call
CreateConflictCall(clinicId, patientId, veterinarianId, appointmentDate, appointmentTime, duration) ==
    IF /\ patientId # Undefined
       /\ ActivePatientFound(patientId, clinicId)
       /\ veterinarianId # Undefined
       /\ VeterinarianFound(veterinarianId, clinicId)
    THEN {checkScheduleConflict(appointments, veterinarianId, appointmentDate,
                                appointmentTime, OrElse(duration, 30), NoId)}
    ELSE {}

\* the outcome of the controller's and the service's createAppointment as an HTTP status
CreateAppointmentCode(clinicId, patientId, veterinarianId, appointmentDate, appointmentTime, duration) ==
    IF patientId = Undefined THEN 400
    ELSE IF ~ActivePatientFound(patientId, clinicId) THEN 404
    ELSE IF veterinarianId # Undefined /\ ~VeterinarianFound(veterinarianId, clinicId) THEN 404
    ELSE IF TRUE \in CreateConflictCall(clinicId, patientId, veterinarianId,
                                        appointmentDate, appointmentTime, duration)
         THEN 409
    ELSE 201

\* POST /api/appointments
createAppointment(clinicId, patientId, veterinarianId, appointmentDate, appointmentTime, duration) ==
    LET code == CreateAppointmentCode(clinicId, patientId, veterinarianId,
                                      appointmentDate, appointmentTime, duration)
        call == CreateConflictCall(clinicId, patientId, veterinarianId,
                                   appointmentDate, appointmentTime, duration)
        rule == /\ veterinarianId # Undefined
                /\ RuleConflict(appointments, veterinarianId, appointmentDate,
                                appointmentTime, OrElse(duration, 30), NoId)
    IN /\ code = 201 => UnusedAppointmentIds # {}
       /\ IF code = 201
          THEN LET id == CHOOSE i \in UnusedAppointmentIds :
                             \A j \in UnusedAppointmentIds : i <= j
               IN appointments' = Insert(appointments, id,
                      [clinicId |-> clinicId, patientId |-> patientId,
                       veterinarianId |-> veterinarianId,
                       appointmentDate |-> appointmentDate,
                       appointmentTime |-> appointmentTime,
                       duration |-> OrElse(duration, 30),
                       status |-> "SCHEDULED", reminderSent |-> FALSE])
          ELSE UNCHANGED appointments
       /\ last' = Observed("createAppointment", code, call, rule,
                           appointments' # appointments)
       /\ AppointmentTablesUnchanged

\* the fields of an update that Prisma applies: an undefined field is left as it is
MergeAppointment(row, data) ==
    [row EXCEPT
        !.veterinarianId = IF data.veterinarianId # Undefined THEN data.veterinarianId ELSE @,
        !.appointmentDate = IF data.appointmentDate # Undefined THEN data.appointmentDate ELSE @,
        !.appointmentTime = IF data.appointmentTime # None THEN data.appointmentTime ELSE @,
        !.duration = IF data.duration # None THEN data.duration[1] ELSE @,
        !.status = IF data.status # Undefined THEN data.status ELSE @]

\* the bodies of PUT requests: any subset of at most MaxUpdatedFields fields
FieldCount(data) ==
    (IF data.veterinarianId # Undefined THEN 1 ELSE 0)
    + (IF data.appointmentDate # Undefined THEN 1 ELSE 0)
    + (IF data.appointmentTime # None THEN 1 ELSE 0)
    + (IF data.duration # None THEN 1 ELSE 0)
    + (IF data.status # Undefined THEN 1 ELSE 0)

UpdateData ==
    {data \in [veterinarianId : UserIds \cup {Undefined},
               appointmentDate : Dates \cup {Undefined},
               appointmentTime : Times \cup {None},
               duration : DurationInputs,
               status : StatusInputs \cup {Undefined}] :
        FieldCount(data) <= MaxUpdatedFields}

\* prisma.appointment.findFirst({ id, clinicId? })
AppointmentFound(id, clinicId) ==
    id \in DOMAIN appointments /\ ClinicFilter(clinicId, appointments[id])

\* whether updateAppointment runs the conflict check at all
UpdateChecksSchedule(data) ==
    \/ data.appointmentDate # Undefined
    \/ data.appointmentTime # None
    \/ data.veterinarianId # Undefined

\* the values updateAppointment passes to the conflict check
UpdateCheckArgs(id, data) ==
    LET existingAppointment == appointments[id]
    IN [veterinarianId |-> IF data.veterinarianId # Undefined THEN data.veterinarianId
                           ELSE existingAppointment.veterinarianId,
        appointmentDate |-> IF data.appointmentDate # Undefined THEN data.appointmentDate
                            ELSE existingAppointment.appointmentDate,
        appointmentTime |-> IF data.appointmentTime # None THEN data.appointmentTime
                            ELSE existingAppointment.appointmentTime,
        duration |-> OrElse(data.duration, existingAppointment.duration)]

\* the answers of checkScheduleConflict in updateAppointment
UpdateConflictCall(id, data, clinicId) ==
    IF /\ AppointmentFound(id, clinicId)
       /\ (data.veterinarianId # Undefined =>
              VeterinarianFound(data.veterinarianId, appointments[id].clinicId))
       /\ UpdateChecksSchedule(data)
       /\ UpdateCheckArgs(id, data).veterinarianId # Undefined
    THEN LET a == UpdateCheckArgs(id, data)
         IN {checkScheduleConflict(appointments, a.veterinarianId, a.appointmentDate,
                                   a.appointmentTime, a.duration, id)}
    ELSE {}

\* the outcome of the controller's and the service's updateAppointment as an HTTP status
UpdateAppointmentCode(id, data, clinicId) ==
    IF ~AppointmentFound(id, clinicId) THEN 404
    ELSE IF /\ data.veterinarianId # Undefined
            /\ ~VeterinarianFound(data.veterinarianId, appointments[id].clinicId)
         THEN 500
    ELSE IF TRUE \in UpdateConflictCall(id, data, clinicId) THEN 409
    ELSE 200

\* PUT /api/appointments/:id
updateAppointment(id, data, clinicId) ==
    LET code == UpdateAppointmentCode(id, data, clinicId)
        call == UpdateConflictCall(id, data, clinicId)
        rule == IF call = {} THEN FALSE
                ELSE LET a == UpdateCheckArgs(id, data)
                     IN RuleConflict(appointments, a.veterinarianId, a.appointmentDate,
                                     a.appointmentTime, a.duration, id)
    IN /\ appointments' = IF code = 200
                          THEN [appointments EXCEPT ![id] = MergeAppointment(@, data)]
                          ELSE appointments
       /\ last' = Observed("updateAppointment", code, call, rule,
                           appointments' # appointments)
       /\ AppointmentTablesUnchanged

\* PATCH /api/appointments/:id/status
updateAppointmentStatus(id, status, clinicId) ==
    LET code == IF status = Undefined \/ status \notin AppointmentStatus THEN 400
                ELSE IF ~AppointmentFound(id, clinicId) THEN 404
                ELSE 200
    IN /\ appointments' = IF code = 200
                          THEN [appointments EXCEPT ![id].status = status]
                          ELSE appointments
       /\ last' = Observed("updateAppointmentStatus", code, {}, FALSE,
                           appointments' # appointments)
       /\ AppointmentTablesUnchanged

\* DELETE /api/appointments/:id
deleteAppointment(id, clinicId) ==
    LET code == IF ~AppointmentFound(id, clinicId) THEN 404
                ELSE IF appointments[id].status \in {"COMPLETED", "IN_PROGRESS"} THEN 400
                ELSE 200
    IN /\ appointments' = IF code = 200 THEN Remove(appointments, id) ELSE appointments
       /\ last' = Observed("deleteAppointment", code, {}, FALSE,
                           appointments' # appointments)
       /\ AppointmentTablesUnchanged

\* a ClinicAccess row
ClinicAccessRow(id, userId, clinicId, accessRole) ==
    [id |-> id, userId |-> userId, clinicId |-> clinicId, accessRole |-> accessRole]
\* u1 and u2 work in clinic c1
ClinicAccessesFixture ==
    {ClinicAccessRow(1, "u1", "c1", "VETERINARIAN"), ClinicAccessRow(2, "u2", "c1", "STAFF")}

\* a clinic with one veterinarian (u1), one staff user (u2), and a patient per clinic
UsersFixture ==
    [u \in UserIds |-> [isActive |-> TRUE,
                        role |-> IF u = "u1" THEN "VETERINARIAN" ELSE "STAFF"]]
PatientsFixture ==
    [p \in PatientIds |-> [clinicId |-> IF p = "p1" THEN "c1" ELSE "c2",
                           ownerId |-> "u2", name |-> "n1", isActive |-> TRUE]]
NoRequest == Observed("none", 0, {}, FALSE, FALSE)

InitAppointments ==
    /\ users = UsersFixture
    /\ clinics = Clinics
    /\ clinicAccesses = ClinicAccessesFixture
    /\ patients = PatientsFixture
    /\ appointments = NoRows
    /\ medicalRecords = NoRows
    /\ products = NoRows
    /\ invoiceItems = {}
    /\ invoices = NoRows
    /\ payments = NoRows
    /\ tasks = NoRows
    /\ last = NoRequest

\* requests of a user whose token carries clinic c1; every booking names a veterinarian
NextAppointments ==
    \/ \E patientId \in PatientIds \cup {Undefined}, veterinarianId \in UserIds,
          appointmentDate \in Dates, appointmentTime \in Times, duration \in DurationInputs :
          createAppointment("c1", patientId, veterinarianId, appointmentDate,
                            appointmentTime, duration)
    \/ \E id \in AppointmentIds, data \in UpdateData : updateAppointment(id, data, "c1")
    \/ \E id \in AppointmentIds, status \in StatusInputs \cup {Undefined, "DONE"} :
          updateAppointmentStatus(id, status, "c1")
    \/ \E id \in AppointmentIds : deleteAppointment(id, "c1")

SpecAppointments == InitAppointments /\ [][NextAppointments]_vars

----------------------------------------------------------------------------
(* Claims on the appointment schedule *)

\* two rows that double-book a veterinarian
DoubleBooked(i, j) ==
    /\ i # j
    /\ appointments[i].veterinarianId # Undefined
    /\ appointments[i].veterinarianId = appointments[j].veterinarianId
    /\ appointments[i].appointmentDate = appointments[j].appointmentDate
    /\ appointments[i].status \notin {"CANCELLED", "NO_SHOW"}
    /\ appointments[j].status \notin {"CANCELLED", "NO_SHOW"}
    /\ RuleOverlaps(ParseMinutes(appointments[i].appointmentTime),
                    ParseMinutes(appointments[i].appointmentTime) + appointments[i].duration,
                    ParseMinutes(appointments[j].appointmentTime),
                    ParseMinutes(appointments[j].appointmentTime) + appointments[j].duration)

\* C1: no veterinarian has two appointments on one date, both neither cancelled
\* nor no-show, whose intervals [start, start + duration) overlap
C1_NoDoubleBooking ==
    \A i, j \in DOMAIN appointments : ~DoubleBooked(i, j)

\* C2: whenever a handler calls checkScheduleConflict, it answers true exactly
\* when the rule start_A < end_B && start_B < end_A finds a conflicting appointment
C2_CheckEqualsRule ==
    last.checked # "not called" => ((last.checked = "conflict") <=> last.rule)

----------------------------------------------------------------------------
(* InvoiceService and InvoiceController *)

\* the ids of invoice rows
InvoiceIds == {1}
PaymentIds == 1..MaxPayments
TaskIds == 1..MaxTasks

InvoiceStatus == {"DRAFT", "SENT", "PARTIAL", "PAID", "OVERDUE", "CANCELLED"}
InvoiceStatusInputs == {"DRAFT", "SENT", "PARTIAL", "PAID"}
\* totalAmount of a new invoice, as computed from its items
TotalInputs == {0, 2}
\* amount of a payment request (routes/invoices/index.ts puts no schema before
\* addPayment, and no route reaches createPayment)
AmountInputs == {-1, 0, 1, 2}

RECURSIVE SumAmounts(_, _)
\* payments.reduce((sum, p) => sum + p.amount, 0) over the payment rows ids
SumAmounts(table, ids) ==
    IF ids = {} THEN 0
    ELSE LET p == CHOOSE q \in ids : TRUE
         IN table[p].amount + SumAmounts(table, ids \ {p})

PaymentsOf(table, invoiceId) == {p \in DOMAIN table : table[p].invoiceId = invoiceId}

PaidAmountAnyStatus(table, invoiceId) == SumAmounts(table, PaymentsOf(table, invoiceId))

\* createPayment's paidAmount: the sum of the invoice's SUCCESS payments
PaidAmount(table, invoiceId) ==
    SumAmounts(table, {p \in PaymentsOf(table, invoiceId) : table[p].status = "SUCCESS"})

NewStatusPaidOnlyAbove(status, totalAmount, newPaidAmount) ==
    IF newPaidAmount > totalAmount THEN "PAID"
    ELSE IF newPaidAmount > 0 THEN "PARTIAL"
    ELSE status

\* createPayment's newStatus
NewStatus(status, totalAmount, newPaidAmount) ==
    IF newPaidAmount >= totalAmount THEN "PAID"
    ELSE IF newPaidAmount > 0 THEN "PARTIAL"
    ELSE status

InvoiceTablesUnchanged ==
    UNCHANGED <<clinics, users, clinicAccesses, patients, appointments, medicalRecords,
                products, invoiceItems>>

\* what an invoice request observed: before is the invoice status the handler
\* read; hadPayments, removed, cancelled and intact describe a finished
\* deleteInvoice (whether the invoice had a payment when the handler wrote,
\* whether the invoice is gone, whether its status is CANCELLED and whether
\* every payment it had is still there)
InvoiceAnswer(op, code, id, before) ==
    [op |-> op, code |-> code, id |-> id, before |-> before,
     hadPayments |-> FALSE, removed |-> FALSE, cancelled |-> FALSE, intact |-> TRUE]

NoInvoiceRequest == InvoiceAnswer("none", 0, NoId, "none")

UnusedInvoiceIds == InvoiceIds \ DOMAIN invoices
UnusedPaymentIds == PaymentIds \ DOMAIN payments
UnusedTaskIds == TaskIds \ DOMAIN tasks
LeastOf(ids) == CHOOSE i \in ids : \A j \in ids : i <= j

\* POST /api/invoices: InvoiceController.createInvoice, with the products of
\* its items; the foreign keys reject a patient, owner or product that is gone
createInvoice(clinicId, patientId, ownerId, productIds, totalAmount) ==
    LET code == IF /\ patientId \in DOMAIN patients
                   /\ ownerId \in DOMAIN users
                   /\ productIds \subseteq DOMAIN products
                THEN 201 ELSE 500
    IN /\ tasks = NoRows
       /\ UnusedInvoiceIds # {}
       /\ invoices' = IF code = 201
                      THEN Insert(invoices, LeastOf(UnusedInvoiceIds),
                                  [clinicId |-> clinicId, patientId |-> patientId,
                                   ownerId |-> ownerId, totalAmount |-> totalAmount,
                                   status |-> "DRAFT"])
                      ELSE invoices
       /\ invoiceItems' = IF code = 201
                          THEN invoiceItems \cup
                               {[invoiceId |-> LeastOf(UnusedInvoiceIds), productId |-> g] :
                                   g \in productIds}
                          ELSE invoiceItems
       /\ last' = InvoiceAnswer("createInvoice", code, LeastOf(UnusedInvoiceIds), "none")
       /\ UNCHANGED <<clinics, users, clinicAccesses, patients, appointments, medicalRecords,
                      products, payments, tasks>>

\* prisma.invoice.findFirst({ id, clinicId? })
InvoiceFound(id, clinicId) ==
    id \in DOMAIN invoices /\ ClinicFilter(clinicId, invoices[id])

\* InvoiceService.updateInvoice, with the status field of its data
updateInvoice(id, status, clinicId) ==
    LET code == IF ~InvoiceFound(id, clinicId) THEN 404
                ELSE IF invoices[id].status = "PAID" THEN 400
                ELSE 200
    IN /\ tasks = NoRows
       /\ invoices' = IF code = 200 /\ status # Undefined
                      THEN [invoices EXCEPT ![id].status = status]
                      ELSE invoices
       /\ last' = InvoiceAnswer("updateInvoice", code, id, "none")
       /\ UNCHANGED <<clinics, payments, tasks>>
       /\ InvoiceTablesUnchanged

\* PUT /api/invoices/:id/status: InvoiceController.updateInvoiceStatus
updateInvoiceStatus(id, status) ==
    LET code == IF id \notin DOMAIN invoices THEN 500 ELSE 200
    IN /\ tasks = NoRows
       /\ invoices' = IF code = 200 /\ status # Undefined
                      THEN [invoices EXCEPT ![id].status = status]
                      ELSE invoices
       /\ last' = InvoiceAnswer("updateInvoiceStatus", code, id, "none")
       /\ UNCHANGED <<clinics, payments, tasks>>
       /\ InvoiceTablesUnchanged

\* POST /api/invoices/:id/payments: InvoiceController.addPayment
addPayment(id, amount) ==
    LET code == IF id \notin DOMAIN invoices THEN 500 ELSE 201
        created == Insert(payments, LeastOf(UnusedPaymentIds),
                          [invoiceId |-> id, amount |-> amount, status |-> "SUCCESS"])
    IN /\ tasks = NoRows
       /\ code = 201 => UnusedPaymentIds # {}
       /\ payments' = IF code = 201 THEN created ELSE payments
       /\ invoices' = IF code = 201 /\ PaidAmountAnyStatus(created, id) >= invoices[id].totalAmount
                      THEN [invoices EXCEPT ![id].status = "PAID"]
                      ELSE invoices
       /\ last' = InvoiceAnswer("addPayment", code, id,
                                IF code = 201 THEN invoices[id].status ELSE "none")
       /\ UNCHANGED tasks
       /\ InvoiceTablesUnchanged

\* InvoiceService.createPayment up to its first write: find the invoice with
\* its payments, reject an amount above the remaining balance
createPaymentRead(t, invoiceId, amount, alone) ==
    /\ UnusedTaskIds # {} /\ t = LeastOf(UnusedTaskIds)
    /\ alone => tasks = NoRows
    /\ IF invoiceId \notin DOMAIN invoices
       THEN /\ last' = InvoiceAnswer("createPayment", 404, invoiceId, "none")
            /\ UNCHANGED tasks
       ELSE IF amount > invoices[invoiceId].totalAmount - PaidAmount(payments, invoiceId)
       THEN /\ last' = InvoiceAnswer("createPayment", 400, invoiceId, invoices[invoiceId].status)
            /\ UNCHANGED tasks
       ELSE /\ tasks' = Insert(tasks, t,
                   [op |-> "createPayment", pc |-> "create", id |-> invoiceId,
                    amount |-> amount, status |-> invoices[invoiceId].status,
                    totalAmount |-> invoices[invoiceId].totalAmount,
                    paidAmount |-> PaidAmount(payments, invoiceId), count |-> 0])
            /\ last' = NoInvoiceRequest
    /\ UNCHANGED <<clinics, invoices, payments>>
    /\ InvoiceTablesUnchanged

TaskNewStatus(task) ==
    NewStatus(task.status, task.totalAmount, task.paidAmount + task.amount)

\* prisma.payment.create of createPayment; the foreign key rejects a payment
\* for an invoice that is gone
createPaymentCreate(t) ==
    /\ t \in DOMAIN tasks /\ tasks[t].op = "createPayment" /\ tasks[t].pc = "create"
    /\ IF tasks[t].id \notin DOMAIN invoices
       THEN /\ last' = InvoiceAnswer("createPayment", 500, tasks[t].id, tasks[t].status)
            /\ tasks' = Remove(tasks, t)
            /\ UNCHANGED payments
       ELSE /\ UnusedPaymentIds # {}
            /\ payments' = Insert(payments, LeastOf(UnusedPaymentIds),
                                  [invoiceId |-> tasks[t].id, amount |-> tasks[t].amount,
                                   status |-> "SUCCESS"])
            /\ IF TaskNewStatus(tasks[t]) # tasks[t].status
               THEN /\ tasks' = [tasks EXCEPT ![t].pc = "update"]
                    /\ UNCHANGED last
               ELSE /\ tasks' = Remove(tasks, t)
                    /\ last' = InvoiceAnswer("createPayment", 200, tasks[t].id, tasks[t].status)
    /\ UNCHANGED invoices
    /\ InvoiceTablesUnchanged

\* prisma.invoice.update of createPayment, reached when newStatus differs
createPaymentUpdate(t) ==
    /\ t \in DOMAIN tasks /\ tasks[t].op = "createPayment" /\ tasks[t].pc = "update"
    /\ IF tasks[t].id \notin DOMAIN invoices
       THEN /\ last' = InvoiceAnswer("createPayment", 500, tasks[t].id, tasks[t].status)
            /\ UNCHANGED invoices
       ELSE /\ invoices' = [invoices EXCEPT ![tasks[t].id].status = TaskNewStatus(tasks[t])]
            /\ last' = InvoiceAnswer("createPayment", 200, tasks[t].id, tasks[t].status)
    /\ tasks' = Remove(tasks, t)
    /\ UNCHANGED payments
    /\ InvoiceTablesUnchanged

\* InvoiceService.deleteInvoice up to its write: find the invoice with _count.payments
deleteInvoiceRead(t, id, clinicId, alone) ==
    /\ UnusedTaskIds # {} /\ t = LeastOf(UnusedTaskIds)
    /\ alone => tasks = NoRows
    /\ IF ~InvoiceFound(id, clinicId)
       THEN /\ last' = InvoiceAnswer("deleteInvoice", 404, id, "none")
            /\ UNCHANGED tasks
       ELSE /\ tasks' = Insert(tasks, t,
                   [op |-> "deleteInvoice", pc |-> "write", id |-> id, amount |-> 0,
                    status |-> invoices[id].status,
                    totalAmount |-> invoices[id].totalAmount, paidAmount |-> 0,
                    count |-> Cardinality(PaymentsOf(payments, id))])
            /\ last' = NoInvoiceRequest
    /\ UNCHANGED <<clinics, invoices, payments>>
    /\ InvoiceTablesUnchanged

\* a finished deleteInvoice, described on the tables before and after its write
DeleteAnswer(code, id, before, invoicesAfter, paymentsAfter) ==
    [InvoiceAnswer("deleteInvoice", code, id, before) EXCEPT
        !.hadPayments = PaymentsOf(payments, id) # {},
        !.removed = id \notin DOMAIN invoicesAfter,
        !.cancelled = id \in DOMAIN invoicesAfter /\ invoicesAfter[id].status = "CANCELLED",
        !.intact = \A p \in PaymentsOf(payments, id) :
                      p \in DOMAIN paymentsAfter /\ paymentsAfter[p] = payments[p]]

\* the write of deleteInvoice: update to CANCELLED when the count it read is
\* positive, delete otherwise.  The delete of an invoice that has payment rows
\* by now is decided by the payment's foreign key, which the service does not
\* fix: the database either removes the payments with it or rejects the delete.
deleteInvoiceWrite(t, cascade) ==
    /\ t \in DOMAIN tasks /\ tasks[t].op = "deleteInvoice" /\ tasks[t].pc = "write"
    /\ LET id == tasks[t].id
           gone == id \notin DOMAIN invoices
           rejected == ~gone /\ tasks[t].count = 0 /\ PaymentsOf(payments, id) # {} /\ ~cascade
           invoicesAfter ==
               IF gone \/ rejected THEN invoices
               ELSE IF tasks[t].count > 0 THEN [invoices EXCEPT ![id].status = "CANCELLED"]
               ELSE Remove(invoices, id)
           paymentsAfter ==
               IF gone \/ rejected \/ tasks[t].count > 0 THEN payments
               ELSE [p \in (DOMAIN payments) \ PaymentsOf(payments, id) |-> payments[p]]
       IN /\ invoices' = invoicesAfter
          /\ payments' = paymentsAfter
          /\ last' = DeleteAnswer(IF gone \/ rejected THEN 500 ELSE 200, id,
                                  tasks[t].status, invoicesAfter, paymentsAfter)
    /\ tasks' = Remove(tasks, t)
    /\ InvoiceTablesUnchanged

InitInvoices ==
    /\ users = UsersFixture
    /\ clinics = Clinics
    /\ clinicAccesses = ClinicAccessesFixture
    /\ patients = PatientsFixture
    /\ appointments = NoRows
    /\ medicalRecords = NoRows
    /\ products = NoRows
    /\ invoiceItems = {}
    /\ invoices = NoRows
    /\ payments = NoRows
    /\ tasks = NoRows
    /\ last = NoInvoiceRequest

\* invoice requests run one at a time: a handler starts when no service call
\* is in flight, and the steps of a call in flight follow
NextInvoices ==
    \/ \E totalAmount \in TotalInputs : createInvoice("c1", "p1", "u2", {}, totalAmount)
    \/ \E id \in InvoiceIds, status \in InvoiceStatusInputs \cup {Undefined} :
          updateInvoice(id, status, "c1")
    \/ \E id \in InvoiceIds, status \in InvoiceStatusInputs \cup {Undefined} :
          updateInvoiceStatus(id, status)
    \/ \E id \in InvoiceIds, amount \in AmountInputs : addPayment(id, amount)
    \/ \E t \in TaskIds, id \in InvoiceIds, amount \in AmountInputs :
          createPaymentRead(t, id, amount, TRUE)
    \/ \E t \in TaskIds, id \in InvoiceIds : deleteInvoiceRead(t, id, "c1", TRUE)
    \/ \E t \in TaskIds : createPaymentCreate(t)
    \/ \E t \in TaskIds : createPaymentUpdate(t)
    \/ \E t \in TaskIds, cascade \in BOOLEAN : deleteInvoiceWrite(t, cascade)

SpecInvoices == InitInvoices /\ [][NextInvoices]_vars

\* createPayment and deleteInvoice calls whose database calls interleave
NextInvoicesConcurrent ==
    \/ \E totalAmount \in TotalInputs \ {0} :
          createInvoice("c1", "p1", "u2", {}, totalAmount)
    \/ \E t \in TaskIds, id \in InvoiceIds, amount \in AmountInputs \cap (1..2) :
          createPaymentRead(t, id, amount, FALSE)
    \/ \E t \in TaskIds, id \in InvoiceIds : deleteInvoiceRead(t, id, "c1", FALSE)
    \/ \E t \in TaskIds : createPaymentCreate(t)
    \/ \E t \in TaskIds : createPaymentUpdate(t)
    \/ \E t \in TaskIds, cascade \in BOOLEAN : deleteInvoiceWrite(t, cascade)

SpecInvoicesConcurrent == InitInvoices /\ [][NextInvoicesConcurrent]_vars

----------------------------------------------------------------------------
(* Claims on invoices and payments *)

\* C4: after a successful createPayment the invoice is PAID if its SUCCESS
\* payments sum to at least totalAmount, PARTIAL if the sum is positive and
\* below totalAmount, and keeps its status otherwise
C4_StatusAfterPayment ==
    (last.op = "createPayment" /\ last.code = 200) =>
        LET sum == PaidAmount(payments, last.id)
            totalAmount == invoices[last.id].totalAmount
        IN invoices[last.id].status =
              IF sum >= totalAmount THEN "PAID"
              ELSE IF sum > 0 THEN "PARTIAL"
              ELSE last.before

\* a createPayment moved an invoice to PARTIAL
C4_Witness ==
    /\ last.op = "createPayment" /\ last.code = 200
    /\ last.before # "PARTIAL"
    /\ invoices[last.id].status = "PARTIAL"

\* the position of a status in DRAFT -> SENT -> PARTIAL -> PAID, 0 outside it
StatusRank(status) ==
    CASE status = "DRAFT" -> 1
      [] status = "SENT" -> 2
      [] status = "PARTIAL" -> 3
      [] status = "PAID" -> 4
      [] OTHER -> 0

\* C5: no invoice operation moves an invoice from a later status of
\* DRAFT -> SENT -> PARTIAL -> PAID to an earlier one
C5_StatusOnlyForward ==
    [][\A i \in (DOMAIN invoices) \cap (DOMAIN invoices') :
          (StatusRank(invoices[i].status) > 0 /\ StatusRank(invoices'[i].status) > 0)
              => StatusRank(invoices'[i].status) >= StatusRank(invoices[i].status)]_vars

\* C10: a deleteInvoice that finds payments on the invoice when it writes leaves
\* the invoice in the table with status CANCELLED and its payments untouched,
\* whatever createPayment calls run at the same time
C10_PaidInvoiceKept ==
    (last.op = "deleteInvoice" /\ last.hadPayments) =>
        (~last.removed /\ last.cancelled /\ last.intact)

----------------------------------------------------------------------------
(* Tenant isolation: the handlers that read and write clinic records *)

\* the clinic in the token of the user who makes the mutating requests
RequesterClinic == "c1"
\* the clinicId of a token: a clinic, or absent when the user had no clinic
\* access at login
TokenClinics == {RequesterClinic, Undefined}

TenantRowIds == {1, 2}
ProductIds == {"g1", "g2", "g3"}
\* the sku values of an update: s2 is the sku of g3, s3 is free
Skus == {"s2", "s3"}
\* the date getAppointmentsNeedingReminders computes as tomorrow
Tomorrow == "d1"

\* row 1 of every table belongs to clinic c1, row 2 to clinic c2
AppointmentsFixture ==
    [i \in TenantRowIds |->
        [clinicId |-> IF i = 1 THEN "c1" ELSE "c2",
         patientId |-> IF i = 1 THEN "p1" ELSE "p2",
         veterinarianId |-> "u1", appointmentDate |-> "d1",
         appointmentTime |-> IF i = 1 THEN <<9, 0>> ELSE <<9, 30>>,
         duration |-> 30, status |-> "SCHEDULED", reminderSent |-> FALSE]]
MedicalRecordsFixture ==
    [i \in TenantRowIds |->
        [clinicId |-> IF i = 1 THEN "c1" ELSE "c2",
         patientId |-> IF i = 1 THEN "p1" ELSE "p2",
         veterinarianId |-> "u1", diagnosis |-> "x1"]]
InvoicesFixture ==
    [i \in TenantRowIds |->
        [clinicId |-> IF i = 1 THEN "c1" ELSE "c2",
         patientId |-> IF i = 1 THEN "p1" ELSE "p2",
         ownerId |-> "u2", totalAmount |-> 2, status |-> "DRAFT"]]
\* g1 and g3 are products of c1, g2 is a product of c2 with the sku of g3
ProductsFixture ==
    [g \in ProductIds |->
        [clinicId |-> IF g = "g2" THEN "c2" ELSE "c1",
         sku |-> IF g = "g1" THEN "s1" ELSE "s2", isActive |-> TRUE]]

\* what a request of this section observed: returned holds the clinicId of
\* every record in the response
TenantAnswer(op, code, clinicId, returned) ==
    [op |-> op, code |-> code, clinicId |-> clinicId, returned |-> returned]

ClinicsOf(table, ids) == {table[i].clinicId : i \in ids}

\* AppointmentService.markReminderSent: update where { id }
markReminderSent(id, clinicId) ==
    LET code == IF id \in DOMAIN appointments THEN 200 ELSE 500
    IN /\ appointments' = IF code = 200
                          THEN [appointments EXCEPT ![id].reminderSent = TRUE]
                          ELSE appointments
       /\ last' = TenantAnswer("markReminderSent", code, clinicId, {})
       /\ AppointmentTablesUnchanged

\* prisma.patient.findFirst({ id, clinicId })
PatientFound(id, clinicId) ==
    id \in DOMAIN patients /\ ClinicFilter(clinicId, patients[id])

\* PUT /api/patients/:id: PatientController.updatePatient, with the name of its body
PatientController_updatePatient(id, name, clinicId) ==
    LET code == IF PatientFound(id, clinicId) THEN 200 ELSE 404
    IN /\ patients' = IF code = 200 /\ name # Undefined
                      THEN [patients EXCEPT ![id].name = name]
                      ELSE patients
       /\ last' = TenantAnswer("updatePatient", code, clinicId, {})
       /\ UNCHANGED <<clinics, users, clinicAccesses, appointments, medicalRecords, products,
                      invoiceItems, invoices, payments, tasks>>

\* DELETE /api/patients/:id: PatientController.deletePatient
PatientController_deletePatient(id, clinicId) ==
    LET code == IF PatientFound(id, clinicId) THEN 200 ELSE 404
    IN /\ patients' = IF code = 200
                      THEN [patients EXCEPT ![id].isActive = FALSE]
                      ELSE patients
       /\ last' = TenantAnswer("deletePatient", code, clinicId, {})
       /\ UNCHANGED <<clinics, users, clinicAccesses, appointments, medicalRecords, products,
                      invoiceItems, invoices, payments, tasks>>

\* prisma.product.findFirst({ id, clinicId })
ProductFound(id, clinicId) ==
    id \in DOMAIN products /\ ClinicFilter(clinicId, products[id])

\* prisma.product.findFirst({ sku, clinicId, id: { not: id } })
SkuConflict(id, sku, clinicId) ==
    \E g \in DOMAIN products :
        g # id /\ products[g].sku = sku /\ ClinicFilter(clinicId, products[g])

\* PUT /api/products/:id: ProductController.updateProduct, with the sku of its body
ProductController_updateProduct(id, sku, clinicId) ==
    LET code == IF ~ProductFound(id, clinicId) THEN 404
                ELSE IF /\ sku # Undefined
                        /\ sku # products[id].sku
                        /\ SkuConflict(id, sku, clinicId)
                     THEN 400
                ELSE 200
    IN /\ products' = IF code = 200 /\ sku # Undefined
                      THEN [products EXCEPT ![id].sku = sku]
                      ELSE products
       /\ last' = TenantAnswer("updateProduct", code, clinicId, {})
       /\ UNCHANGED <<clinics, users, clinicAccesses, patients, appointments, medicalRecords,
                      invoiceItems, invoices, payments, tasks>>

\* DELETE /api/products/:id: ProductController.deleteProduct
ProductController_deleteProduct(id, clinicId) ==
    LET code == IF ProductFound(id, clinicId) THEN 200 ELSE 404
    IN /\ products' = IF code = 200
                      THEN [products EXCEPT ![id].isActive = FALSE]
                      ELSE products
       /\ last' = TenantAnswer("deleteProduct", code, clinicId, {})
       /\ UNCHANGED <<clinics, users, clinicAccesses, patients, appointments, medicalRecords,
                      invoiceItems, invoices, payments, tasks>>

\* prisma.medicalRecord.findFirst({ id, clinicId })
MedicalRecordFound(id, clinicId) ==
    id \in DOMAIN medicalRecords /\ ClinicFilter(clinicId, medicalRecords[id])

\* prisma.user.findFirst({ id, clinicAccesses: { some: { clinicId } } })
UserWithAccessFound(id, clinicId) ==
    /\ id \in DOMAIN users
    /\ \E ca \in clinicAccesses :
          ca.userId = id /\ (clinicId = Undefined \/ ca.clinicId = clinicId)

\* PUT /api/medical-records/:id, with the veterinarianId and diagnosis of its body
updateMedicalRecord(id, veterinarianId, diagnosis, clinicId) ==
    LET code == IF ~MedicalRecordFound(id, clinicId) THEN 404
                ELSE IF /\ veterinarianId # Undefined
                        /\ veterinarianId # medicalRecords[id].veterinarianId
                        /\ ~UserWithAccessFound(veterinarianId, clinicId)
                     THEN 404
                ELSE 200
    IN /\ medicalRecords' =
              IF code = 200
              THEN [medicalRecords EXCEPT
                       ![id].veterinarianId = IF veterinarianId # Undefined
                                              THEN veterinarianId ELSE @,
                       ![id].diagnosis = IF diagnosis # Undefined THEN diagnosis ELSE @]
              ELSE medicalRecords
       /\ last' = TenantAnswer("updateMedicalRecord", code, clinicId, {})
       /\ UNCHANGED <<clinics, users, clinicAccesses, patients, appointments, products,
                      invoiceItems, invoices, payments, tasks>>

\* DELETE /api/medical-records/:id
deleteMedicalRecord(id, clinicId) ==
    LET code == IF MedicalRecordFound(id, clinicId) THEN 200 ELSE 404
    IN /\ medicalRecords' = IF code = 200 THEN Remove(medicalRecords, id)
                            ELSE medicalRecords
       /\ last' = TenantAnswer("deleteMedicalRecord", code, clinicId, {})
       /\ UNCHANGED <<clinics, users, clinicAccesses, patients, appointments, products,
                      invoiceItems, invoices, payments, tasks>>

\* GET /api/appointments: AppointmentService.getAppointments, no query filters
getAppointments(clinicId) ==
    /\ last' = TenantAnswer("getAppointments", 200, clinicId,
                   ClinicsOf(appointments,
                       {i \in DOMAIN appointments : ClinicFilter(clinicId, appointments[i])}))
    /\ UNCHANGED <<clinics, users, clinicAccesses, patients, appointments, medicalRecords,
                   products, invoiceItems, invoices, payments, tasks>>

\* GET /api/appointments/:id: AppointmentService.getAppointmentById
getAppointmentById(id, clinicId) ==
    /\ last' = IF AppointmentFound(id, clinicId)
               THEN TenantAnswer("getAppointmentById", 200, clinicId,
                                 {appointments[id].clinicId})
               ELSE TenantAnswer("getAppointmentById", 404, clinicId, {})
    /\ UNCHANGED <<clinics, users, clinicAccesses, patients, appointments, medicalRecords,
                   products, invoiceItems, invoices, payments, tasks>>

\* GET /api/appointments/reminders/pending: the service takes no clinicId
getAppointmentsNeedingReminders(clinicId) ==
    /\ last' = TenantAnswer("getAppointmentsNeedingReminders", 200, clinicId,
                   ClinicsOf(appointments,
                       {i \in DOMAIN appointments :
                           /\ appointments[i].appointmentDate = Tomorrow
                           /\ appointments[i].status \in {"SCHEDULED", "CONFIRMED"}
                           /\ ~appointments[i].reminderSent}))
    /\ UNCHANGED <<clinics, users, clinicAccesses, patients, appointments, medicalRecords,
                   products, invoiceItems, invoices, payments, tasks>>

\* GET /api/patients: where { clinicId, isActive: true }
getAllPatients(clinicId) ==
    /\ last' = TenantAnswer("getAllPatients", 200, clinicId,
                   ClinicsOf(patients,
                       {i \in DOMAIN patients :
                           ClinicFilter(clinicId, patients[i]) /\ patients[i].isActive}))
    /\ UNCHANGED <<clinics, users, clinicAccesses, patients, appointments, medicalRecords,
                   products, invoiceItems, invoices, payments, tasks>>

\* GET /api/patients/:id
getPatientById(id, clinicId) ==
    /\ last' = IF PatientFound(id, clinicId)
               THEN TenantAnswer("getPatientById", 200, clinicId, {patients[id].clinicId})
               ELSE TenantAnswer("getPatientById", 404, clinicId, {})
    /\ UNCHANGED <<clinics, users, clinicAccesses, patients, appointments, medicalRecords,
                   products, invoiceItems, invoices, payments, tasks>>

\* GET /api/invoices: where { clinicId }
getAllInvoices(clinicId) ==
    /\ last' = TenantAnswer("getAllInvoices", 200, clinicId,
                   ClinicsOf(invoices,
                       {i \in DOMAIN invoices : ClinicFilter(clinicId, invoices[i])}))
    /\ UNCHANGED <<clinics, users, clinicAccesses, patients, appointments, medicalRecords,
                   products, invoiceItems, invoices, payments, tasks>>

\* GET /api/invoices/:id
getInvoiceById(id, clinicId) ==
    /\ last' = IF InvoiceFound(id, clinicId)
               THEN TenantAnswer("getInvoiceById", 200, clinicId, {invoices[id].clinicId})
               ELSE TenantAnswer("getInvoiceById", 404, clinicId, {})
    /\ UNCHANGED <<clinics, users, clinicAccesses, patients, appointments, medicalRecords,
                   products, invoiceItems, invoices, payments, tasks>>

\* GET /api/products: where { clinicId, isActive: true }
getAllProducts(clinicId) ==
    /\ last' = TenantAnswer("getAllProducts", 200, clinicId,
                   ClinicsOf(products,
                       {g \in DOMAIN products :
                           ClinicFilter(clinicId, products[g]) /\ products[g].isActive}))
    /\ UNCHANGED <<clinics, users, clinicAccesses, patients, appointments, medicalRecords,
                   products, invoiceItems, invoices, payments, tasks>>

\* GET /api/products/:id
getProductById(id, clinicId) ==
    /\ last' = IF ProductFound(id, clinicId)
               THEN TenantAnswer("getProductById", 200, clinicId, {products[id].clinicId})
               ELSE TenantAnswer("getProductById", 404, clinicId, {})
    /\ UNCHANGED <<clinics, users, clinicAccesses, patients, appointments, medicalRecords,
                   products, invoiceItems, invoices, payments, tasks>>

\* GET /api/medical-records: where { clinicId }
getAllMedicalRecords(clinicId) ==
    /\ last' = TenantAnswer("getAllMedicalRecords", 200, clinicId,
                   ClinicsOf(medicalRecords,
                       {i \in DOMAIN medicalRecords :
                           ClinicFilter(clinicId, medicalRecords[i])}))
    /\ UNCHANGED <<clinics, users, clinicAccesses, patients, appointments, medicalRecords,
                   products, invoiceItems, invoices, payments, tasks>>

\* GET /api/medical-records/:id
getMedicalRecordById(id, clinicId) ==
    /\ last' = IF MedicalRecordFound(id, clinicId)
               THEN TenantAnswer("getMedicalRecordById", 200, clinicId,
                                 {medicalRecords[id].clinicId})
               ELSE TenantAnswer("getMedicalRecordById", 404, clinicId, {})
    /\ UNCHANGED <<clinics, users, clinicAccesses, patients, appointments, medicalRecords,
                   products, invoiceItems, invoices, payments, tasks>>

ReadOps ==
    {"getAppointments", "getAppointmentById", "getAppointmentsNeedingReminders",
     "getAllPatients", "getPatientById", "getAllInvoices", "getInvoiceById",
     "getAllProducts", "getProductById", "getAllMedicalRecords", "getMedicalRecordById"}

\* a PUT /api/appointments/:id body that carries a status or nothing
TenantUpdateData ==
    {data \in UpdateData :
        /\ FieldCount(data) <= 1
        /\ data.veterinarianId = Undefined
        /\ data.appointmentDate = Undefined
        /\ data.appointmentTime = None
        /\ data.duration = None}

\* two clinics with a row each in every table; u1 works in both clinics
InitTenant ==
    /\ users = UsersFixture
    /\ clinics = Clinics
    /\ clinicAccesses = ClinicAccessesFixture \cup {ClinicAccessRow(3, "u1", "c2", "VETERINARIAN")}
    /\ patients = PatientsFixture
    /\ appointments = AppointmentsFixture
    /\ medicalRecords = MedicalRecordsFixture
    /\ products = ProductsFixture
    /\ invoiceItems = {}
    /\ invoices = InvoicesFixture
    /\ payments = NoRows
    /\ tasks = NoRows
    /\ last = NoRequest

\* the mutating requests of a user whose token carries RequesterClinic, each
\* aimed at the row of either clinic
NextTenantWrites ==
    \/ \E id \in TenantRowIds, status \in {"SENT"} : updateInvoiceStatus(id, status)
    \/ \E id \in TenantRowIds, amount \in {2} : addPayment(id, amount)
    \/ \E id \in TenantRowIds : markReminderSent(id, RequesterClinic)
    \/ \E id \in TenantRowIds, data \in TenantUpdateData :
          updateAppointment(id, data, RequesterClinic)
    \/ \E id \in TenantRowIds : deleteAppointment(id, RequesterClinic)
    \/ \E id \in PatientIds, name \in {"n2"} :
          PatientController_updatePatient(id, name, RequesterClinic)
    \/ \E id \in PatientIds : PatientController_deletePatient(id, RequesterClinic)
    \/ \E id \in {"g1", "g2"}, sku \in Skus :
          ProductController_updateProduct(id, sku, RequesterClinic)
    \/ \E id \in {"g1", "g2"} : ProductController_deleteProduct(id, RequesterClinic)
    \/ \E id \in TenantRowIds, veterinarianId \in {"u2", Undefined}, diagnosis \in {"x2"} :
          updateMedicalRecord(id, veterinarianId, diagnosis, RequesterClinic)
    \/ \E id \in TenantRowIds : deleteMedicalRecord(id, RequesterClinic)

SpecTenantWrites == InitTenant /\ [][NextTenantWrites]_vars

\* the reads of users whose token carries RequesterClinic or no clinic, between
\* the writes that change what a list returns
NextTenantReads ==
    \/ \E id \in TenantRowIds : markReminderSent(id, RequesterClinic)
    \/ \E id \in TenantRowIds : deleteAppointment(id, RequesterClinic)
    \/ \E id \in PatientIds : PatientController_deletePatient(id, RequesterClinic)
    \/ \E id \in ProductIds : ProductController_deleteProduct(id, RequesterClinic)
    \/ \E id \in TenantRowIds : deleteMedicalRecord(id, RequesterClinic)
    \/ \E clinicId \in TokenClinics : getAppointments(clinicId)
    \/ \E id \in TenantRowIds, clinicId \in TokenClinics : getAppointmentById(id, clinicId)
    \/ \E clinicId \in TokenClinics : getAppointmentsNeedingReminders(clinicId)
    \/ \E clinicId \in TokenClinics : getAllPatients(clinicId)
    \/ \E id \in PatientIds, clinicId \in TokenClinics : getPatientById(id, clinicId)
    \/ \E clinicId \in TokenClinics : getAllInvoices(clinicId)
    \/ \E id \in TenantRowIds, clinicId \in TokenClinics : getInvoiceById(id, clinicId)
    \/ \E clinicId \in TokenClinics : getAllProducts(clinicId)
    \/ \E id \in ProductIds, clinicId \in TokenClinics : getProductById(id, clinicId)
    \/ \E clinicId \in TokenClinics : getAllMedicalRecords(clinicId)
    \/ \E id \in TenantRowIds, clinicId \in TokenClinics : getMedicalRecordById(id, clinicId)

SpecTenantReads == InitTenant /\ [][NextTenantReads]_vars

----------------------------------------------------------------------------
(* Claims on tenant isolation *)

\* C6: no mutating request of a user whose token carries RequesterClinic
\* changes or deletes a record of another clinic, or adds a payment to an
\* invoice of another clinic
C6_NoCrossClinicWrite ==
    [][/\ \A i \in DOMAIN appointments : appointments[i].clinicId # RequesterClinic =>
              (i \in DOMAIN appointments' /\ appointments'[i] = appointments[i])
       /\ \A i \in DOMAIN patients : patients[i].clinicId # RequesterClinic =>
              (i \in DOMAIN patients' /\ patients'[i] = patients[i])
       /\ \A i \in DOMAIN products : products[i].clinicId # RequesterClinic =>
              (i \in DOMAIN products' /\ products'[i] = products[i])
       /\ \A i \in DOMAIN medicalRecords : medicalRecords[i].clinicId # RequesterClinic =>
              (i \in DOMAIN medicalRecords' /\ medicalRecords'[i] = medicalRecords[i])
       /\ \A i \in DOMAIN invoices : invoices[i].clinicId # RequesterClinic =>
              (i \in DOMAIN invoices' /\ invoices'[i] = invoices[i])
       /\ \A p \in (DOMAIN payments') \ (DOMAIN payments) :
              invoices[payments'[p].invoiceId].clinicId = RequesterClinic]_vars

\* C7: every list or by-id read returns only records of the clinic in the
\* requester's token; a requester whose token carries no clinic gets none
C7_ReadsOnlyOwnClinic ==
    last.op \in ReadOps => \A c \in last.returned : c = last.clinicId

----------------------------------------------------------------------------
(* authenticateToken and routes behind it *)

Schemes == {"Bearer", "Basic"}
\* a token string by the secret that signed it: JWT_SECRET (access),
\* JWT_REFRESH_SECRET (refresh), or neither (forged)
TokenKinds == {"access", "refresh", "forged"}
\* u3 is a user whose row is gone since the token was issued
TokenUserIds == UserIds \cup {"u3"}
Tokens == [kind : TokenKinds, userId : TokenUserIds, expired : BOOLEAN]
\* req.headers.authorization as the words split(' ') yields; <<>> is an absent header
AuthHeaders ==
    {<<>>} \cup {<<scheme>> : scheme \in Schemes}
           \cup {<<scheme, token>> : scheme \in Schemes, token \in Tokens}
\* an optional boolean of a request body: None or <<b>>
IsActiveInputs == {None, <<TRUE>>, <<FALSE>>}

\* authHeader && authHeader.split(' ')[1]
TokenOf(authHeader) ==
    IF Len(authHeader) >= 2 THEN <<authHeader[2]>> ELSE None

\* verification that accepts a token signed with either secret
verifyAccessTokenAnySecret(token) ==
    token.kind \in {"access", "refresh"} /\ ~token.expired

\* JWTService.verifyAccessToken: jwt.verify with accessTokenSecret; TRUE when it
\* returns the payload, FALSE when it throws
verifyAccessToken(token) ==
    token.kind = "access" /\ ~token.expired

\* authenticateToken: passed is whether it calls next(), code the status it
\* answers otherwise
authenticateToken(authHeader) ==
    IF TokenOf(authHeader) = None THEN [passed |-> FALSE, code |-> 401]
    ELSE IF ~verifyAccessToken(TokenOf(authHeader)[1]) THEN [passed |-> FALSE, code |-> 401]
    ELSE IF \/ TokenOf(authHeader)[1].userId \notin DOMAIN users
            \/ ~users[TokenOf(authHeader)[1].userId].isActive
         THEN [passed |-> FALSE, code |-> 401]
    ELSE [passed |-> TRUE, code |-> 200]

\* what a request behind authenticateToken observed: the header it carried,
\* the user table when it arrived, whether the middleware passed it on, the
\* status answered and whether the handler changed the user table
AuthAnswer(op, authHeader, passed, code, usersAfter) ==
    [op |-> op, authHeader |-> authHeader, usersBefore |-> users, passed |-> passed,
     code |-> code, changed |-> usersAfter # users]

AuthOps == {"getCurrentUser", "updateUser", "deleteUser"}

\* GET /api/auth/me
getCurrentUser(authHeader) ==
    LET auth == authenticateToken(authHeader)
    IN /\ last' = AuthAnswer("getCurrentUser", authHeader, auth.passed, auth.code, users)
       /\ UNCHANGED <<clinics, users, clinicAccesses, patients, appointments, medicalRecords,
                      products, invoiceItems, invoices, payments, tasks>>

\* PUT /api/users/:id: UserController.updateUser, with the isActive of its body
UserController_updateUser(authHeader, id, isActive) ==
    LET auth == authenticateToken(authHeader)
        code == IF ~auth.passed THEN auth.code
                ELSE IF id \notin DOMAIN users THEN 500
                ELSE 200
        usersAfter == IF auth.passed /\ code = 200 /\ isActive # None
                      THEN [users EXCEPT ![id].isActive = isActive[1]]
                      ELSE users
    IN /\ users' = usersAfter
       /\ last' = AuthAnswer("updateUser", authHeader, auth.passed, code, usersAfter)
       /\ UNCHANGED <<clinics, clinicAccesses, patients, appointments, medicalRecords,
                      products, invoiceItems, invoices, payments, tasks>>

\* DELETE /api/users/:id: UserController.deleteUser
UserController_deleteUser(authHeader, id) ==
    LET auth == authenticateToken(authHeader)
        code == IF ~auth.passed THEN auth.code
                ELSE IF id \notin DOMAIN users THEN 500
                ELSE 200
        usersAfter == IF auth.passed /\ code = 200
                      THEN [users EXCEPT ![id].isActive = FALSE]
                      ELSE users
    IN /\ users' = usersAfter
       /\ last' = AuthAnswer("deleteUser", authHeader, auth.passed, code, usersAfter)
       /\ UNCHANGED <<clinics, clinicAccesses, patients, appointments, medicalRecords,
                      products, invoiceItems, invoices, payments, tasks>>

InitAuth ==
    /\ users = UsersFixture
    /\ clinics = Clinics
    /\ clinicAccesses = ClinicAccessesFixture
    /\ patients = PatientsFixture
    /\ appointments = NoRows
    /\ medicalRecords = NoRows
    /\ products = NoRows
    /\ invoiceItems = {}
    /\ invoices = NoRows
    /\ payments = NoRows
    /\ tasks = NoRows
    /\ last = NoRequest

NextAuth ==
    \/ \E authHeader \in AuthHeaders : getCurrentUser(authHeader)
    \/ \E authHeader \in AuthHeaders, id \in TokenUserIds, isActive \in IsActiveInputs :
          UserController_updateUser(authHeader, id, isActive)
    \/ \E authHeader \in AuthHeaders, id \in TokenUserIds :
          UserController_deleteUser(authHeader, id)

SpecAuth == InitAuth /\ [][NextAuth]_vars

----------------------------------------------------------------------------
(* Claims on authentication *)

\* the header carries a token that is signed with the access secret and not
\* expired, and the token's user is in the table and active
CarriesValidToken(authHeader, table) ==
    /\ Len(authHeader) >= 2
    /\ authHeader[2].kind = "access"
    /\ ~authHeader[2].expired
    /\ authHeader[2].userId \in DOMAIN table
    /\ table[authHeader[2].userId].isActive

\* C8: authenticateToken passes a request on exactly when it carries a token
\* that verifies as an access token and whose user exists and is active when
\* the request arrives; every other request is answered 401 and its handler
\* changes nothing
C8_OnlyVerifiedActiveUserPasses ==
    last.op \in AuthOps =>
        /\ (last.passed <=> CarriesValidToken(last.authHeader, last.usersBefore))
        /\ (~last.passed => (last.code = 401 /\ ~last.changed))

\* a request with a valid token was passed on and its handler changed a user
C8_Witness ==
    /\ last.op \in AuthOps
    /\ last.passed
    /\ last.changed

----------------------------------------------------------------------------
(* The delete services: PatientService, ProductService, UserService *)

MedicalRecordIds == 1..MaxMedicalRecords
UnusedMedicalRecordIds == MedicalRecordIds \ DOMAIN medicalRecords

\* POST /api/medical-records: MedicalRecordController.createMedicalRecord
createMedicalRecord(clinicId, patientId, veterinarianId) ==
    LET code == IF ~PatientFound(patientId, clinicId) THEN 404
                ELSE IF ~UserWithAccessFound(veterinarianId, clinicId) THEN 404
                ELSE 201
    IN /\ code = 201 => UnusedMedicalRecordIds # {}
       /\ medicalRecords' =
              IF code = 201
              THEN Insert(medicalRecords, LeastOf(UnusedMedicalRecordIds),
                          [clinicId |-> clinicId, patientId |-> patientId,
                           veterinarianId |-> veterinarianId, diagnosis |-> "x1"])
              ELSE medicalRecords
       /\ last' = TenantAnswer("createMedicalRecord", code, clinicId, {})
       /\ UNCHANGED <<clinics, users, clinicAccesses, patients, appointments, products,
                      invoiceItems, invoices, payments, tasks>>

\* prisma.clinicAccess.findFirst({ userId, clinicId }): the rows it chooses from
AccessesOf(userId, clinicId) ==
    {ca \in clinicAccesses : ca.userId = userId /\ ca.clinicId = clinicId}
\* the row findFirst returns, the oldest one
FirstAccess(userId, clinicId) ==
    CHOOSE ca \in AccessesOf(userId, clinicId) :
        \A other \in AccessesOf(userId, clinicId) : ca.id <= other.id

\* ClinicService.removeUserFromClinic; it throws when the access row is missing
removeUserFromClinic(userId, clinicId) ==
    LET found == AccessesOf(userId, clinicId)
        code == IF found # {} THEN 200 ELSE 404
    IN /\ clinicAccesses' = IF found # {}
                            THEN clinicAccesses \ {FirstAccess(userId, clinicId)}
                            ELSE clinicAccesses
       /\ last' = TenantAnswer("removeUserFromClinic", code, clinicId, {})
       /\ UNCHANGED <<clinics, users, patients, appointments, medicalRecords, products,
                      invoiceItems, invoices, payments, tasks>>

\* what a delete service observed: whether any row referenced the target when
\* the service ran, whether the target is gone afterwards, and whether it is
\* in the table with isActive = false afterwards
DeleteObserved(op, code, id, hadChildren, tableAfter) ==
    [op |-> op, code |-> code, id |-> id, hadChildren |-> hadChildren,
     removed |-> id \notin DOMAIN tableAfter,
     inactive |-> id \in DOMAIN tableAfter /\ ~tableAfter[id].isActive]

\* the outcomes of deleting a row that other rows reference; the schema that
\* fixes the foreign key's action is not part of the services
ReferentialActions == {"Cascade", "Restrict", "SetNull"}

\* _count of deletePatient: medicalRecords and invoices of the patient
PatientCountedChildren(id) ==
    \/ \E r \in DOMAIN medicalRecords : medicalRecords[r].patientId = id
    \/ \E i \in DOMAIN invoices : invoices[i].patientId = id

\* the appointments of the patient, which deletePatient does not count
PatientAppointments(id) == {a \in DOMAIN appointments : appointments[a].patientId = id}

\* PatientService.deletePatient
deletePatient(id, clinicId, onDelete) ==
    LET found == PatientFound(id, clinicId)
        soft == found /\ PatientCountedChildren(id)
        rejected == found /\ ~soft /\ PatientAppointments(id) # {} /\ onDelete = "Restrict"
        code == IF ~found THEN 404 ELSE IF rejected THEN 500 ELSE 200
        patientsAfter == IF code # 200 THEN patients
                         ELSE IF soft THEN [patients EXCEPT ![id].isActive = FALSE]
                         ELSE Remove(patients, id)
    IN /\ onDelete \in {"Cascade", "Restrict"}
       /\ patients' = patientsAfter
       /\ appointments' = IF code = 200 /\ ~soft
                          THEN [a \in (DOMAIN appointments) \ PatientAppointments(id) |->
                                   appointments[a]]
                          ELSE appointments
       /\ last' = DeleteObserved("deletePatient", code, id,
                                 found /\ (PatientCountedChildren(id)
                                           \/ PatientAppointments(id) # {}),
                                 patientsAfter)
       /\ UNCHANGED <<clinics, users, clinicAccesses, medicalRecords, products, invoiceItems,
                      invoices, payments, tasks>>

\* _count of deleteProduct: the invoice items of the product
ProductCountedChildren(id) == \E item \in invoiceItems : item.productId = id

\* ProductService.deleteProduct
deleteProduct(id, clinicId) ==
    LET found == ProductFound(id, clinicId)
        soft == found /\ ProductCountedChildren(id)
        code == IF ~found THEN 404 ELSE 200
        productsAfter == IF code # 200 THEN products
                         ELSE IF soft THEN [products EXCEPT ![id].isActive = FALSE]
                         ELSE Remove(products, id)
    IN /\ products' = productsAfter
       /\ last' = DeleteObserved("deleteProduct", code, id, soft, productsAfter)
       /\ UNCHANGED <<clinics, users, clinicAccesses, patients, appointments, medicalRecords,
                      invoiceItems, invoices, payments, tasks>>

\* _count of deleteUser: patients, medicalRecords, invoices and clinicAccesses of the user
UserCountedChildren(id) ==
    \/ \E p \in DOMAIN patients : patients[p].ownerId = id
    \/ \E r \in DOMAIN medicalRecords : medicalRecords[r].veterinarianId = id
    \/ \E i \in DOMAIN invoices : invoices[i].ownerId = id
    \/ \E ca \in clinicAccesses : ca.userId = id

\* the appointments of the veterinarian, which deleteUser does not count
UserAppointments(id) == {a \in DOMAIN appointments : appointments[a].veterinarianId = id}

\* UserService.deleteUser
deleteUser(id, onDelete) ==
    LET found == id \in DOMAIN users
        soft == found /\ UserCountedChildren(id)
        rejected == found /\ ~soft /\ UserAppointments(id) # {} /\ onDelete = "Restrict"
        code == IF ~found THEN 404 ELSE IF rejected THEN 500 ELSE 200
        usersAfter == IF code # 200 THEN users
                      ELSE IF soft THEN [users EXCEPT ![id].isActive = FALSE]
                      ELSE Remove(users, id)
    IN /\ users' = usersAfter
       /\ appointments' =
              IF code = 200 /\ ~soft
              THEN IF onDelete = "SetNull"
                   THEN [a \in DOMAIN appointments |->
                            IF a \in UserAppointments(id)
                            THEN [appointments[a] EXCEPT !.veterinarianId = Undefined]
                            ELSE appointments[a]]
                   ELSE [a \in (DOMAIN appointments) \ UserAppointments(id) |->
                            appointments[a]]
              ELSE appointments
       /\ last' = DeleteObserved("deleteUser", code, id,
                                 found /\ (UserCountedChildren(id) \/ UserAppointments(id) # {}),
                                 usersAfter)
       /\ UNCHANGED <<clinics, clinicAccesses, patients, medicalRecords, products, invoiceItems,
                      invoices, payments, tasks>>

InitDeletes ==
    /\ users = UsersFixture
    /\ clinics = Clinics
    /\ clinicAccesses = ClinicAccessesFixture
    /\ patients = PatientsFixture
    /\ appointments = NoRows
    /\ medicalRecords = NoRows
    /\ products = ProductsFixture
    /\ invoiceItems = {}
    /\ invoices = NoRows
    /\ payments = NoRows
    /\ tasks = NoRows
    /\ last = NoRequest

\* clinic c1 books appointments, writes records and invoices, and deletes
NextDeletes ==
    \/ \E appointmentTime \in Times :
          createAppointment("c1", "p1", "u1", "d1", appointmentTime, None)
    \/ createMedicalRecord("c1", "p1", "u1")
    \/ \E productIds \in {{}, {"g1"}} : createInvoice("c1", "p1", "u2", productIds, 2)
    \/ \E userId \in UserIds : removeUserFromClinic(userId, "c1")
    \/ \E id \in PatientIds, onDelete \in ReferentialActions : deletePatient(id, "c1", onDelete)
    \/ \E id \in ProductIds : deleteProduct(id, "c1")
    \/ \E id \in UserIds, onDelete \in ReferentialActions : deleteUser(id, onDelete)

SpecDeletes == InitDeletes /\ [][NextDeletes]_vars

----------------------------------------------------------------------------
(* Claims on deletes *)

DeleteOps == {"deletePatient", "deleteProduct", "deleteUser"}

\* C9: a delete service that finds its target leaves a row that any record
\* references in the table with isActive = false, and removes only a row that
\* no record references
C9_RowWithChildrenKept ==
    (last.op \in DeleteOps /\ last.code # 404) =>
        /\ (last.hadChildren => (~last.removed /\ last.inactive))
        /\ (last.removed => ~last.hadChildren)

----------------------------------------------------------------------------
(* Patient lookups after DELETE /api/patients/:id *)

\* an id that no patient row has
UnknownPatientId == "p3"
PatientIdInputs == PatientIds \cup {UnknownPatientId}

\* the ids GET /api/patients returns: findMany where { clinicId, isActive: true }
ListedPatients(clinicId) ==
    {i \in DOMAIN patients : ClinicFilter(clinicId, patients[i]) /\ patients[i].isActive}

\* the patient requests of users whose token carries RequesterClinic or no clinic
NextPatients ==
    \/ \E clinicId \in TokenClinics : getAllPatients(clinicId)
    \/ \E id \in PatientIdInputs, clinicId \in TokenClinics : getPatientById(id, clinicId)
    \/ \E id \in PatientIdInputs, name \in {"n2", Undefined}, clinicId \in TokenClinics :
          PatientController_updatePatient(id, name, clinicId)
    \/ \E id \in PatientIdInputs, clinicId \in TokenClinics :
          PatientController_deletePatient(id, clinicId)

SpecPatients == InitTenant /\ [][NextPatients]_vars

----------------------------------------------------------------------------
(* Claims on patient soft delete *)

\* DELETE /api/patients/:id has succeeded on this patient of the clinic
SoftDeleted(id, clinicId) ==
    id \in DOMAIN patients /\ patients[id].clinicId = clinicId /\ ~patients[id].isActive

\* C11: once DELETE /api/patients/:id has succeeded on a patient of the
\* requester's clinic, GET /api/patients of that clinic omits the patient and
\* GET, PUT and DELETE /api/patients/:id for it answer 404
C11_DeletedPatientNotFound ==
    [][\A id \in PatientIds : SoftDeleted(id, RequesterClinic) =>
          /\ getAllPatients(RequesterClinic) => id \notin ListedPatients(RequesterClinic)
          /\ getPatientById(id, RequesterClinic) => last'.code = 404
          /\ (\E name \in {"n2", Undefined} :
                 PatientController_updatePatient(id, name, RequesterClinic))
                => last'.code = 404
          /\ PatientController_deletePatient(id, RequesterClinic) => last'.code = 404]_vars

\* C12: DELETE /api/patients/:id on a patient of the requester's clinic
\* answers 200, keeps the row and changes only isActive to false; on any other
\* id it answers 404 and changes no patient
C12_DeleteOnlyClearsIsActive ==
    [][\A id \in PatientIdInputs, clinicId \in TokenClinics :
          PatientController_deletePatient(id, clinicId) =>
              IF id \in DOMAIN patients /\ patients[id].clinicId = clinicId
              THEN /\ last'.code = 200
                   /\ patients' = [patients EXCEPT ![id].isActive = FALSE]
              ELSE /\ last'.code = 404
                   /\ patients' = patients]_vars

----------------------------------------------------------------------------
(* ClinicAccess rows: createClinic, addUserToClinic, removeUserFromClinic *)

AccessIds == 1..MaxClinicAccesses
UnusedAccessIds == AccessIds \ {ca.id : ca \in clinicAccesses}

\* what a ClinicService call answered: "ok", or the error it threw
AccessAnswer(op, code, userId, clinicId) ==
    [op |-> op, code |-> code, userId |-> userId, clinicId |-> clinicId]

\* the compound unique key userId_clinicId of the ClinicAccess model, which
\* makes prisma.clinicAccess.create throw P2002 when a row has the pair
ClinicAccessKeyNeverTaken(userId, clinicId) == FALSE
ClinicAccessKeyTaken(userId, clinicId) == AccessesOf(userId, clinicId) # {}

\* POST /api/clinics: ClinicController.createClinic by the user of the token;
\* the new clinic gets an id no clinic has, and its creator an OWNER row
createClinic(userId) ==
    LET id == CHOOSE c \in Clinics \ clinics : TRUE
        code == IF userId \notin DOMAIN users \/ ClinicAccessKeyTaken(userId, id)
                THEN 500 ELSE 201
    IN /\ Clinics \ clinics # {}
       /\ code = 201 => UnusedAccessIds # {}
       /\ clinics' = clinics \cup {id}
       /\ clinicAccesses' =
              IF code = 201
              THEN clinicAccesses \cup
                       {ClinicAccessRow(LeastOf(UnusedAccessIds), userId, id, "OWNER")}
              ELSE clinicAccesses
       /\ last' = AccessAnswer("createClinic", code, userId, id)
       /\ UNCHANGED <<users, patients, appointments, medicalRecords, products,
                      invoiceItems, invoices, payments, tasks>>

\* ClinicService.addUserToClinic up to its write: find the user, the clinic
\* and the existing access row
addUserToClinicRead(t, userId, clinicId, accessRole) ==
    /\ UnusedTaskIds # {} /\ t = LeastOf(UnusedTaskIds)
    /\ IF userId \notin DOMAIN users \/ clinicId \notin clinics
       THEN /\ last' = AccessAnswer("addUserToClinic", "not found", userId, clinicId)
            /\ UNCHANGED tasks
       ELSE /\ tasks' = Insert(tasks, t,
                   [op |-> "addUserToClinic", userId |-> userId, clinicId |-> clinicId,
                    accessRole |-> accessRole,
                    existingAccess |-> IF AccessesOf(userId, clinicId) # {}
                                       THEN FirstAccess(userId, clinicId).id
                                       ELSE NoId])
            /\ UNCHANGED last
    /\ UNCHANGED <<users, clinics, clinicAccesses, patients, appointments, medicalRecords,
                   products, invoiceItems, invoices, payments>>

\* the write of addUserToClinic: update the role of the row it found, which
\* throws P2025 when the row is gone, or create a row
addUserToClinicWrite(t) ==
    /\ t \in DOMAIN tasks /\ tasks[t].op = "addUserToClinic"
    /\ LET task == tasks[t]
           found == {ca \in clinicAccesses : ca.id = task.existingAccess}
           code == IF task.existingAccess # NoId
                   THEN (IF found # {} THEN "ok" ELSE "P2025")
                   ELSE (IF ClinicAccessKeyTaken(task.userId, task.clinicId)
                         THEN "P2002" ELSE "ok")
       IN /\ (code = "ok" /\ task.existingAccess = NoId) => UnusedAccessIds # {}
          /\ clinicAccesses' =
                 IF code # "ok" THEN clinicAccesses
                 ELSE IF task.existingAccess # NoId
                 THEN (clinicAccesses \ found) \cup
                          {[ca EXCEPT !.accessRole = task.accessRole] : ca \in found}
                 ELSE clinicAccesses \cup
                          {ClinicAccessRow(LeastOf(UnusedAccessIds), task.userId,
                                           task.clinicId, task.accessRole)}
          /\ last' = AccessAnswer("addUserToClinic", code, task.userId, task.clinicId)
    /\ tasks' = Remove(tasks, t)
    /\ UNCHANGED <<users, clinics, patients, appointments, medicalRecords, products,
                   invoiceItems, invoices, payments>>

\* clinic c1 with its two users; no call in flight
InitClinicAccess ==
    /\ users = UsersFixture
    /\ clinics = {"c1"}
    /\ clinicAccesses = ClinicAccessesFixture
    /\ patients = NoRows
    /\ appointments = NoRows
    /\ medicalRecords = NoRows
    /\ products = NoRows
    /\ invoiceItems = {}
    /\ invoices = NoRows
    /\ payments = NoRows
    /\ tasks = NoRows
    /\ last = NoRequest

\* u1 creates a clinic and is added to and removed from clinics; the calls
\* interleave at their awaits; u3 is an id no user has
NextClinicAccess ==
    \/ \E userId \in {"u1"} : createClinic(userId)
    \/ \E t \in TaskIds, userId \in {"u1", "u3"}, clinicId \in Clinics,
          accessRole \in {"VIEWER"} :
          addUserToClinicRead(t, userId, clinicId, accessRole)
    \/ \E t \in TaskIds : addUserToClinicWrite(t)
    \/ \E userId \in {"u1"}, clinicId \in Clinics : removeUserFromClinic(userId, clinicId)

SpecClinicAccess == InitClinicAccess /\ [][NextClinicAccess]_vars

----------------------------------------------------------------------------
(* Claims on ClinicAccess *)

----------------------------------------------------------------------------
(* ProductService: stock and the low-stock-alert event *)

StockInputs == {None, <<0>>, <<1>>, <<MaxStock>>}
MinStockAlertInputs == {None, <<0>>, <<1>>}
QuantityInputs == {-1, 1, 2}
StockOperations == {"ADD", "SUBTRACT", "SET", "RESET"}
GeneratedSkus == {"s9"}

\* a Socket.IO room: `clinic-${clinicId}`
Room(clinicId) == <<"clinic", clinicId>>

\* the condition of the three emits, on the row prisma returned
LowStockStrictlyBelow(product) == product.stockQuantity < product.minStockAlert
LowStock(product) == product.stockQuantity <= product.minStockAlert

\* io.to(room).emit('low-stock-alert', ...): the events of one call
LowStockEvents(clinicId, id, product) ==
    IF LowStock(product)
    THEN {[room |-> Room(clinicId), event |-> "low-stock-alert", productId |-> id,
           currentStock |-> product.stockQuantity, minStock |-> product.minStockAlert]}
    ELSE {}

\* what a ProductService call answered and emitted
StockAnswer(op, code, id, emitted) ==
    [op |-> op, code |-> code, id |-> id, emitted |-> emitted]

Max(a, b) == IF a >= b THEN a ELSE b
UnusedProductIds == ProductIds \ DOMAIN products

\* ProductService.createProduct
createProduct(clinicId, skuInput, stockQuantity, minStockAlert) ==
    \E generated \in GeneratedSkus :
        LET id == CHOOSE g \in UnusedProductIds : TRUE
            sku == IF skuInput = Undefined THEN generated ELSE skuInput
            code == IF clinicId \notin clinics THEN 404
                    ELSE IF \E g \in DOMAIN products :
                                products[g].sku = sku /\ products[g].clinicId = clinicId
                    THEN 409
                    ELSE 201
            product == [clinicId |-> clinicId, sku |-> sku, isActive |-> TRUE,
                        stockQuantity |-> OrElse(stockQuantity, 0),
                        minStockAlert |-> OrElse(minStockAlert, 10)]
        IN /\ UnusedProductIds # {}
           /\ products' = IF code = 201 THEN Insert(products, id, product) ELSE products
           /\ last' = StockAnswer("createProduct", code, id,
                          IF code = 201 THEN LowStockEvents(clinicId, id, product) ELSE {})
           /\ UNCHANGED <<users, clinics, clinicAccesses, patients, appointments,
                          medicalRecords, invoiceItems, invoices, payments, tasks>>

\* ProductService.updateProduct, with the sku, stockQuantity and minStockAlert
\* of its data
updateProduct(id, skuInput, stockQuantity, minStockAlert, clinicId) ==
    LET code == IF ~ProductFound(id, clinicId) THEN 404
                ELSE IF /\ skuInput # Undefined
                        /\ skuInput # products[id].sku
                        /\ \E g \in DOMAIN products :
                              /\ products[g].sku = skuInput
                              /\ products[g].clinicId = products[id].clinicId
                              /\ g # id
                THEN 409
                ELSE 200
        updatedProduct ==
            [products[id] EXCEPT
                !.sku = IF skuInput = Undefined THEN @ ELSE skuInput,
                !.stockQuantity = IF stockQuantity = None THEN @ ELSE stockQuantity[1],
                !.minStockAlert = IF minStockAlert = None THEN @ ELSE minStockAlert[1]]
    IN /\ products' = IF code = 200 THEN [products EXCEPT ![id] = updatedProduct]
                      ELSE products
       /\ last' = StockAnswer("updateProduct", code, id,
                      IF code = 200
                      THEN LowStockEvents(products[id].clinicId, id, updatedProduct)
                      ELSE {})
       /\ UNCHANGED <<users, clinics, clinicAccesses, patients, appointments,
                      medicalRecords, invoiceItems, invoices, payments, tasks>>

\* the switch of updateStock
NewStockQuantity(product, operation, quantity) ==
    IF operation = "ADD" THEN product.stockQuantity + quantity
    ELSE IF operation = "SUBTRACT" THEN Max(0, product.stockQuantity - quantity)
    ELSE Max(0, quantity)

\* ProductService.updateStock
updateStock(id, operation, quantity, clinicId) ==
    LET code == IF ~ProductFound(id, clinicId) THEN 404
                ELSE IF operation \notin {"ADD", "SUBTRACT", "SET"} THEN 400
                ELSE 200
        updatedProduct ==
            [products[id] EXCEPT
                !.stockQuantity = NewStockQuantity(products[id], operation, quantity)]
    IN /\ code = 200 => updatedProduct.stockQuantity \in -1..MaxStock
       /\ products' = IF code = 200 THEN [products EXCEPT ![id] = updatedProduct]
                      ELSE products
       /\ last' = StockAnswer("updateStock", code, id,
                      IF code = 200
                      THEN LowStockEvents(products[id].clinicId, id, updatedProduct)
                      ELSE {})
       /\ UNCHANGED <<users, clinics, clinicAccesses, patients, appointments,
                      medicalRecords, invoiceItems, invoices, payments, tasks>>

\* a product of c1 and a product of c2, both above their alert level
StockFixture ==
    [g \in {"g1", "g2"} |->
        [clinicId |-> IF g = "g1" THEN "c1" ELSE "c2", sku |-> "s1", isActive |-> TRUE,
         stockQuantity |-> 2, minStockAlert |-> 1]]

InitStock ==
    /\ users = UsersFixture
    /\ clinics = Clinics
    /\ clinicAccesses = ClinicAccessesFixture
    /\ patients = NoRows
    /\ appointments = NoRows
    /\ medicalRecords = NoRows
    /\ products = StockFixture
    /\ invoiceItems = {}
    /\ invoices = NoRows
    /\ payments = NoRows
    /\ tasks = NoRows
    /\ last = NoRequest

\* c3 is the id of no clinic; a created product gets the generated sku or
\* asks for the one g1 has; updateProduct is called for clinic c1, updateStock
\* for c1 or without a clinic
NextStock ==
    \/ \E clinicId \in {"c1", "c3"}, sku \in {"s1", Undefined},
          stockQuantity \in StockInputs, minStockAlert \in MinStockAlertInputs :
          createProduct(clinicId, sku, stockQuantity, minStockAlert)
    \/ \E id \in {"g1", "g2"}, sku \in GeneratedSkus \cup {Undefined},
          stockQuantity \in StockInputs, minStockAlert \in MinStockAlertInputs :
          updateProduct(id, sku, stockQuantity, minStockAlert, RequesterClinic)
    \/ \E id \in {"g1", "g2"}, operation \in StockOperations, quantity \in QuantityInputs,
          clinicId \in TokenClinics :
          updateStock(id, operation, quantity, clinicId)

SpecStock == InitStock /\ [][NextStock]_vars

----------------------------------------------------------------------------
(* Claims on the low-stock event *)

StockOps == {"createProduct", "updateProduct", "updateStock"}

\* C14: a createProduct, updateProduct or updateStock call that succeeds emits
\* low-stock-alert exactly when the stockQuantity it stored is at most the
\* product's minStockAlert, and only to the room of the clinic that owns the product
C14_LowStockEventWhenLow ==
    (last.op \in StockOps /\ last.code \in {200, 201}) =>
        /\ last.emitted # {} <=> products[last.id].stockQuantity <= products[last.id].minStockAlert
        /\ \A e \in last.emitted :
              /\ e.event = "low-stock-alert"
              /\ e.productId = last.id
              /\ e.room = Room(products[last.id].clinicId)

\* updateStock has brought a product of c2 down to exactly its alert level and
\* the event went out
C14_Witness ==
    /\ last.op = "updateStock"
    /\ last.code = 200
    /\ products[last.id].clinicId = "c2"
    /\ products[last.id].stockQuantity = products[last.id].minStockAlert
    /\ last.emitted # {}

----------------------------------------------------------------------------
(* Claims on request validation *)

\* the regex of createAppointmentSchema on the fields of "HH:MM"
IsHHMM(appointmentTime) ==
    /\ Len(appointmentTime) = 2
    /\ appointmentTime[1] \in 0..23
    /\ appointmentTime[2] \in 0..59

\* C15: every appointment stored through POST /api/appointments or
\* PUT /api/appointments/:id has passed the Zod schema: its duration is a
\* positive integer and its appointmentTime is HH:MM
C15_StoredAppointmentsValid ==
    \A i \in DOMAIN appointments :
        /\ appointments[i].duration \in Nat \ {0}
        /\ IsHHMM(appointments[i].appointmentTime)

----------------------------------------------------------------------------
(* errorHandler, createError and the AuthService behind /api/auth *)

\* JavaScript values by their type
Num(n) == <<"number", n>>
Str(s) == <<"string", s>>
IsNum(v) == v[1] = "number"
\* truthiness of a number or a string
Truthy(v) == IF IsNum(v) THEN v[2] # 0 ELSE v[2] # ""

\* createError(statusCode, message): an Error carrying statusCode
createError(statusCode, message) ==
    [name |-> "Error", statusCode |-> statusCode, message |-> message]

\* errorHandler's default branch answers res.status(err.statusCode || 500) with
\* a JSON body of success: false.  A status that is no number in 100..999 makes
\* writeHead throw inside the handler, and Express's final handler answers 500
\* with an HTML page, which has no success field.
errorHandler(err) ==
    LET statusCode == IF Truthy(err.statusCode) THEN err.statusCode ELSE Num(500)
    IN IF IsNum(statusCode) /\ statusCode[2] \in 100..999
       THEN [code |-> statusCode[2], success |-> <<FALSE>>]
       ELSE [code |-> 500, success |-> None]

\* validateBody: 400 with success: false when a required field is absent
ValidationFailed == [code |-> 400, success |-> <<FALSE>>]

Emails == {"e1", "e2", "e9"}
Passwords == {"pw1", "pw2", "wrong"}
\* PasswordService.hash and PasswordService.compare
Hash(password) == <<"hash", password>>
Compare(password, passwordHash) == Hash(password) = passwordHash

\* u1 is active, u2 is deactivated; no user has the email e9
AuthUsersFixture ==
    [u \in UserIds |->
        [isActive |-> u = "u1", role |-> "STAFF",
         email |-> IF u = "u1" THEN "e1" ELSE "e2",
         passwordHash |-> IF u = "u1" THEN Hash("pw1") ELSE Hash("pw2")]]

\* prisma.user.findUnique({ email })
UsersByEmail(email) == {u \in DOMAIN users : users[u].email = email}

\* what a request to /api/auth was answered: the status, success of the JSON
\* body (None without one), and the kinds of tokens in the response
AuthServiceAnswer(op, response, issued, usersAfter) ==
    [op |-> op, code |-> response.code, success |-> response.success,
     issued |-> issued, changed |-> usersAfter # users]

\* JWTService.generateTokens: an access and a refresh token
GeneratedTokenKinds == {"access", "refresh"}
Success(code) == [code |-> code, success |-> <<TRUE>>]

\* the error AuthService.login throws, None when it returns tokens
LoginError(email, password, clinicId) ==
    LET found == UsersByEmail(email)
        user == users[CHOOSE u \in found : TRUE]
        id == CHOOSE u \in found : TRUE
    IN IF found = {}
       THEN <<createError(Str("Invalid email or password"), Num(401))>>
       ELSE IF ~user.isActive
       THEN <<createError(Str("Account is deactivated"), Num(401))>>
       ELSE IF ~Compare(password, user.passwordHash)
       THEN <<createError(Str("Invalid email or password"), Num(401))>>
       ELSE IF clinicId # Undefined /\ AccessesOf(id, clinicId) = {}
       THEN <<createError(Str("No access to this clinic"), Num(403))>>
       ELSE None

\* POST /api/auth/login: validateBody(loginSchema), authController.login,
\* AuthService.login, and errorHandler for what it throws
login(email, password, clinicId) ==
    LET response ==
            IF email = Undefined \/ password = Undefined THEN ValidationFailed
            ELSE IF LoginError(email, password, clinicId) # None
            THEN errorHandler(LoginError(email, password, clinicId)[1])
            ELSE Success(200)
    IN /\ last' = AuthServiceAnswer("login", response,
                      IF response.code = 200 THEN GeneratedTokenKinds ELSE {}, users)
       /\ UNCHANGED <<users, clinics, clinicAccesses, patients, appointments,
                      medicalRecords, products, invoiceItems, invoices, payments, tasks>>

UnusedUserIds == TokenUserIds \ DOMAIN users

\* POST /api/auth/register: validateBody(registerSchema),
\* authController.register, AuthService.register
register(email, password, name) ==
    LET response ==
            IF email = Undefined \/ password = Undefined \/ name = Undefined
            THEN ValidationFailed
            ELSE IF UsersByEmail(email) # {}
            THEN errorHandler(createError(Str("User with this email already exists"),
                                          Num(409)))
            ELSE Success(201)
        created == Insert(users, CHOOSE u \in UnusedUserIds : TRUE,
                          [isActive |-> TRUE, role |-> "CUSTOMER", email |-> email,
                           passwordHash |-> Hash(password)])
        usersAfter == IF response.code = 201 THEN created ELSE users
    IN /\ response.code = 201 => UnusedUserIds # {}
       /\ users' = usersAfter
       /\ last' = AuthServiceAnswer("register", response,
                      IF response.code = 201 THEN GeneratedTokenKinds ELSE {}, usersAfter)
       /\ UNCHANGED <<clinics, clinicAccesses, patients, appointments, medicalRecords,
                      products, invoiceItems, invoices, payments, tasks>>

\* JWTService.verifyRefreshToken: jwt.verify with refreshTokenSecret; TRUE when
\* it returns the payload, FALSE when it throws
verifyRefreshTokenAnySecret(token) ==
    token.kind \in {"access", "refresh"} /\ ~token.expired
verifyRefreshToken(token) ==
    token.kind = "refresh" /\ ~token.expired

\* whether the try block of AuthService.refreshToken throws; its catch turns
\* every error into createError('Invalid refresh token', 401)
RefreshThrows(token) ==
    \/ ~verifyRefreshToken(token)
    \/ token.userId \notin DOMAIN users
    \/ ~users[token.userId].isActive

\* POST /api/auth/refresh: validateBody(refreshTokenSchema),
\* authController.refreshToken, AuthService.refreshToken; the body's
\* refreshToken is None when absent
refreshToken(refreshTokenInput) ==
    LET response ==
            IF refreshTokenInput = None THEN ValidationFailed
            ELSE IF RefreshThrows(refreshTokenInput[1])
            THEN errorHandler(createError(Str("Invalid refresh token"), Num(401)))
            ELSE Success(200)
    IN /\ last' = AuthServiceAnswer("refreshToken", response,
                      IF response.code = 200 THEN GeneratedTokenKinds ELSE {}, users)
          @@ [token |-> refreshTokenInput]
       /\ UNCHANGED <<users, clinics, clinicAccesses, patients, appointments,
                      medicalRecords, products, invoiceItems, invoices, payments, tasks>>

\* POST /api/auth/logout: authController.logout, which no middleware precedes;
\* AuthService.logout only writes a log line
logout(authHeader) ==
    /\ last' = AuthServiceAnswer("logout", Success(200), {}, users)
                  @@ [authHeader |-> authHeader]
    /\ UNCHANGED <<users, clinics, clinicAccesses, patients, appointments,
                   medicalRecords, products, invoiceItems, invoices, payments, tasks>>

\* UserService.deactivateUser of a user that is no super admin
deactivateUser(id) ==
    /\ users' = IF id \in DOMAIN users THEN [users EXCEPT ![id].isActive = FALSE]
                ELSE users
    /\ last' = [op |-> "deactivateUser", code |-> IF id \in DOMAIN users THEN 200 ELSE 404]
    /\ UNCHANGED <<clinics, clinicAccesses, patients, appointments, medicalRecords,
                   products, invoiceItems, invoices, payments, tasks>>

\* UserService.activateUser; prisma.user.update throws for a missing row
activateUser(id) ==
    /\ users' = IF id \in DOMAIN users THEN [users EXCEPT ![id].isActive = TRUE]
                ELSE users
    /\ last' = [op |-> "activateUser", code |-> IF id \in DOMAIN users THEN 200 ELSE 500]
    /\ UNCHANGED <<clinics, clinicAccesses, patients, appointments, medicalRecords,
                   products, invoiceItems, invoices, payments, tasks>>

InitAuthService ==
    /\ users = AuthUsersFixture
    /\ clinics = Clinics
    /\ clinicAccesses = {ClinicAccessRow(1, "u1", "c1", "STAFF")}
    /\ patients = NoRows
    /\ appointments = NoRows
    /\ medicalRecords = NoRows
    /\ products = NoRows
    /\ invoiceItems = {}
    /\ invoices = NoRows
    /\ payments = NoRows
    /\ tasks = NoRows
    /\ last = NoRequest

NextAuthService ==
    \/ \E email \in Emails \cup {Undefined}, password \in Passwords \cup {Undefined},
          clinicId \in Clinics \cup {Undefined} :
          login(email, password, clinicId)
    \/ \E email \in Emails \cup {Undefined}, password \in {"pw1", Undefined},
          name \in {"n1", Undefined} :
          register(email, password, name)
    \/ \E token \in {None} \cup {<<t>> : t \in Tokens} : refreshToken(token)
    \/ \E authHeader \in AuthHeaders : logout(authHeader)
    \/ \E id \in UserIds : deactivateUser(id)
    \/ \E id \in UserIds : activateUser(id)

SpecAuthService == InitAuthService /\ [][NextAuthService]_vars

----------------------------------------------------------------------------
(* Claims on /api/auth *)

\* C16: a login whose email belongs to no user, or whose password is wrong for
\* the user of the email, is answered 401 with success = false and gets no token
C16_BadLoginAnswered401 ==
    [][\A email \in Emails, password \in Passwords, clinicId \in Clinics \cup {Undefined} :
          (/\ login(email, password, clinicId)
           /\ \/ UsersByEmail(email) = {}
              \/ \E u \in UsersByEmail(email) : ~Compare(password, users[u].passwordHash))
          => (last'.code = 401 /\ last'.success = <<FALSE>> /\ last'.issued = {})]_vars

\* C17: a register whose email belongs to a user is answered 409 with
\* success = false and creates or changes no user
C17_DuplicateEmailAnswered409 ==
    [][\A email \in Emails, password \in {"pw1"}, name \in {"n1"} :
          (register(email, password, name) /\ UsersByEmail(email) # {})
          => (last'.code = 409 /\ last'.success = <<FALSE>> /\ users' = users)]_vars

\* C18: a refresh whose token fails verification, or whose user is gone or
\* inactive, is answered 401 and gets no token
C18_BadRefreshAnswered401 ==
    [][\A token \in Tokens :
          (refreshToken(<<token>>) /\ RefreshThrows(token))
          => (last'.code = 401 /\ last'.issued = {})]_vars

\* C19: a logout without a bearer token is answered 401 with success = false
C19_LogoutWithoutTokenAnswered401 ==
    (last.op = "logout" /\ TokenOf(last.authHeader) = None)
        => (last.code = 401 /\ last.success = <<FALSE>>)

----------------------------------------------------------------------------
(* The clinic router: GET requests to /api/clinics *)

\* the path below /api/clinics: "" is the root, the others one segment
ClinicPaths == {"", "my", "c1", "c9"}
\* whether a segment has the form of a clinic id (a UUID)
IsUuid(segment) == segment \notin {"", "my"}

\* the layers of the router in the order of registration; a pattern ":id"
\* matches any one segment; the use layer matches every request
ClinicRoutes ==
    << [kind |-> "route", method |-> "GET", pattern |-> "", handler |-> "getAllClinics"],
       [kind |-> "route", method |-> "GET", pattern |-> ":id", handler |-> "getClinicById"],
       [kind |-> "use", method |-> "ALL", pattern |-> "*", handler |-> "authenticateToken"],
       [kind |-> "route", method |-> "GET", pattern |-> "my", handler |-> "getMyClinics"] >>

\* Express's match of a layer against a request
LayerMatches(layer, method, path) ==
    \/ layer.kind = "use"
    \/ /\ layer.method = method
       /\ \/ layer.pattern = path
          \/ layer.pattern = ":id" /\ path # ""

\* the handler that answers the request: layers run in order, authenticateToken
\* answers 401 itself or calls next(), a route handler always answers
RECURSIVE Dispatch(_, _, _, _)
Dispatch(layers, method, path, authHeader) ==
    IF layers = <<>> THEN "none"
    ELSE IF ~LayerMatches(Head(layers), method, path)
    THEN Dispatch(Tail(layers), method, path, authHeader)
    ELSE IF Head(layers).kind = "use"
    THEN (IF authenticateToken(authHeader).passed
          THEN Dispatch(Tail(layers), method, path, authHeader)
          ELSE "authenticateToken")
    ELSE Head(layers).handler

\* the clinics getMyClinics finds: clinicAccesses some userId
MyClinics(userId) ==
    {c \in clinics : \E ca \in clinicAccesses : ca.clinicId = c /\ ca.userId = userId}

\* what a request to the clinic router was answered, by which handler, and
\* the ids of the clinics in the response
RouteAnswer(handler, code, path, authHeader, returned) ==
    [op |-> "GET /api/clinics", handler |-> handler, code |-> code, path |-> path,
     authHeader |-> authHeader, returned |-> returned]

\* GET /api/clinics/<path>.  prisma.clinic.findUnique throws for an id that is
\* no UUID when the id column is a UUID column, and finds nothing otherwise.
getClinics(path, authHeader) ==
    LET handler == Dispatch(ClinicRoutes, "GET", path, authHeader)
        codes == IF handler = "authenticateToken" THEN {401}
                 ELSE IF handler \in {"getAllClinics", "getMyClinics"} THEN {200}
                 ELSE IF handler = "getClinicById"
                 THEN (IF path \in clinics THEN {200}
                       ELSE IF IsUuid(path) THEN {404} ELSE {404, 500})
                 ELSE {404}
        returned == IF handler = "getAllClinics" THEN clinics
                    ELSE IF handler = "getMyClinics"
                    THEN MyClinics(TokenOf(authHeader)[1].userId)
                    ELSE IF handler = "getClinicById" /\ path \in clinics THEN {path}
                    ELSE {}
    IN /\ \E code \in codes : last' = RouteAnswer(handler, code, path, authHeader, returned)
       /\ UNCHANGED <<users, clinics, clinicAccesses, patients, appointments,
                      medicalRecords, products, invoiceItems, invoices, payments, tasks>>

InitClinicRoutes ==
    /\ users = UsersFixture
    /\ clinics = Clinics
    /\ clinicAccesses = ClinicAccessesFixture
    /\ patients = NoRows
    /\ appointments = NoRows
    /\ medicalRecords = NoRows
    /\ products = NoRows
    /\ invoiceItems = {}
    /\ invoices = NoRows
    /\ payments = NoRows
    /\ tasks = NoRows
    /\ last = NoRequest

\* GET requests between the calls that change who is active and who has access
NextClinicRoutes ==
    \/ \E path \in ClinicPaths, authHeader \in AuthHeaders : getClinics(path, authHeader)
    \/ \E userId \in UserIds, clinicId \in Clinics : removeUserFromClinic(userId, clinicId)
    \/ \E id \in UserIds : deactivateUser(id)
    \/ \E id \in UserIds : activateUser(id)

SpecClinicRoutes == InitClinicRoutes /\ [][NextClinicRoutes]_vars

----------------------------------------------------------------------------
(* Claims on GET /api/clinics/my *)

\* C20: GET /api/clinics/my is answered 401 by authenticateToken without a
\* valid token, and with one by getMyClinics with the clinics in which the
\* user holds a ClinicAccess
C20_MyClinicsBehindAuthentication ==
    (last.op = "GET /api/clinics" /\ last.path = "my") =>
        IF authenticateToken(last.authHeader).passed
        THEN /\ last.handler = "getMyClinics"
             /\ last.code = 200
             /\ last.returned = MyClinics(TokenOf(last.authHeader)[1].userId)
        ELSE last.code = 401

----------------------------------------------------------------------------
(* Paginated lists: GET /api/appointments and GET /api/patients *)

\* the page and limit of a query string: absent, or a positive number
PageInputs == {None, <<1>>, <<2>>}
LimitInputs == {None, <<1>>, <<2>>}

\* Math.ceil(total / limit), limit positive
CeilDiv(total, limit) == (total + limit - 1) \div limit

\* the orders in which findMany may return the rows: sorted by the key, rows
\* of equal key in any order
OrderedRows(rows, key(_)) ==
    {seq \in [1..Cardinality(rows) -> rows] :
        /\ \A i, j \in DOMAIN seq : i # j => seq[i] # seq[j]
        /\ \A i, j \in DOMAIN seq : i < j => key(seq[i]) <= key(seq[j])}

\* findMany({ skip, take }) on ordered rows
SkipTake(seq, skip, take) ==
    SubSeq(seq, skip + 1, IF skip + take <= Len(seq) THEN skip + take ELSE Len(seq))

\* the answer of a paginated list: the page size given to findMany, the rows
\* and the pagination object of the response
PageAnswer(op, take, data, pagination) ==
    [op |-> op, code |-> 200, take |-> take, data |-> data, pagination |-> pagination]

\* AppointmentService.getAppointments: page = 1, limit = 20 by default
AppointmentService_getAppointments(page, limit, clinicId) ==
    LET pageNumber == IF page = None THEN 1 ELSE page[1]
        take == IF limit = None THEN 20 ELSE limit[1]
        skip == (pageNumber - 1) * take
        rows == {i \in DOMAIN appointments : ClinicFilter(clinicId, appointments[i])}
        key(i) == ParseMinutes(appointments[i].appointmentTime)
        total == Cardinality(rows)
    IN {[appointments |-> SkipTake(seq, skip, take), total |-> total,
         page |-> pageNumber, totalPages |-> CeilDiv(total, take), take |-> take] :
            seq \in OrderedRows(rows, key)}

\* GET /api/appointments
getAllAppointments(page, limit, clinicId) ==
    /\ \E result \in AppointmentService_getAppointments(page, limit, clinicId) :
          last' = PageAnswer("getAllAppointments", result.take, result.appointments,
                      [page |-> result.page,
                       limit |-> IF result.totalPages > 0
                                 THEN CeilDiv(result.total, result.page) ELSE 20,
                       total |-> result.total,
                       totalPages |-> result.totalPages])
    /\ UNCHANGED <<clinics, users, clinicAccesses, patients, appointments, medicalRecords,
                   products, invoiceItems, invoices, payments, tasks>>

\* GET /api/patients with its query: page = 1, limit = 10 by default
PatientController_getAllPatients(page, limit, clinicId) ==
    LET pageNumber == IF page = None THEN 1 ELSE page[1]
        take == IF limit = None THEN 10 ELSE limit[1]
        skip == (pageNumber - 1) * take
        rows == ListedPatients(clinicId)
        key(i) == 0
        total == Cardinality(rows)
    IN /\ \E seq \in OrderedRows(rows, key) :
             last' = PageAnswer("getAllPatients", take, SkipTake(seq, skip, take),
                         [page |-> pageNumber, limit |-> take, total |-> total,
                          totalPages |-> CeilDiv(total, take)])
       /\ UNCHANGED <<clinics, users, clinicAccesses, patients, appointments,
                      medicalRecords, products, invoiceItems, invoices, payments, tasks>>

NextPagination ==
    \/ \E veterinarianId \in UserIds, appointmentTime \in Times :
          createAppointment(RequesterClinic, "p1", veterinarianId, "d1",
                            appointmentTime, None)
    \/ \E id \in AppointmentIds : deleteAppointment(id, RequesterClinic)
    \/ \E id \in PatientIds : PatientController_deletePatient(id, RequesterClinic)
    \/ \E page \in PageInputs, limit \in LimitInputs :
          getAllAppointments(page, limit, RequesterClinic)
    \/ \E page \in PageInputs, limit \in LimitInputs, clinicId \in TokenClinics :
          PatientController_getAllPatients(page, limit, clinicId)

SpecPagination == InitAppointments /\ [][NextPagination]_vars

\* C21: every paginated list response reports as pagination.limit the page size
\* given to the query, holds at most that many rows, and reports
\* totalPages = ceil(total / limit)
C21_PaginationConsistent ==
    last.op \in {"getAllAppointments", "getAllPatients"} =>
        /\ last.pagination.limit = last.take
        /\ Len(last.data) <= last.take
        /\ last.pagination.totalPages = CeilDiv(last.pagination.total, last.take)

----------------------------------------------------------------------------
(* Concurrent payments *)

\* C22: whatever the interleaving of createPayment calls, the SUCCESS payments
\* of an invoice never sum to more than its totalAmount
C22_PaymentsWithinTotal ==
    \A id \in DOMAIN invoices : PaidAmount(payments, id) <= invoices[id].totalAmount

----------------------------------------------------------------------------
(* Concurrent createAppointment calls *)

\* AppointmentService.createAppointment up to its write: the patient and
\* veterinarian lookups and checkScheduleConflict, on the rows present now
createAppointmentCheck(t, clinicId, patientId, veterinarianId, appointmentDate, appointmentTime, duration) ==
    LET code == CreateAppointmentCode(clinicId, patientId, veterinarianId,
                                      appointmentDate, appointmentTime, duration)
        call == CreateConflictCall(clinicId, patientId, veterinarianId,
                                   appointmentDate, appointmentTime, duration)
        rule == /\ veterinarianId # Undefined
                /\ RuleConflict(appointments, veterinarianId, appointmentDate,
                                appointmentTime, OrElse(duration, 30), NoId)
    IN /\ UnusedTaskIds # {} /\ t = LeastOf(UnusedTaskIds)
       /\ Cardinality(UnusedAppointmentIds) > Cardinality(DOMAIN tasks)
       /\ IF code = 201
          THEN /\ tasks' = Insert(tasks, t,
                      [op |-> "createAppointment", pc |-> "create",
                       data |-> [clinicId |-> clinicId, patientId |-> patientId,
                                 veterinarianId |-> veterinarianId,
                                 appointmentDate |-> appointmentDate,
                                 appointmentTime |-> appointmentTime,
                                 duration |-> OrElse(duration, 30),
                                 status |-> "SCHEDULED", reminderSent |-> FALSE]])
               /\ last' = NoRequest
          ELSE /\ last' = Observed("createAppointment", code, call, rule, FALSE)
               /\ UNCHANGED tasks
       /\ UNCHANGED <<clinics, users, clinicAccesses, patients, appointments,
                      medicalRecords, products, invoiceItems, invoices, payments>>

\* prisma.appointment.create of createAppointment, with the data checked before
createAppointmentCreate(t) ==
    /\ t \in DOMAIN tasks /\ tasks[t].op = "createAppointment" /\ tasks[t].pc = "create"
    /\ appointments' = Insert(appointments, LeastOf(UnusedAppointmentIds), tasks[t].data)
    /\ last' = Observed("createAppointment", 201, {FALSE},
                   RuleConflict(appointments, tasks[t].data.veterinarianId,
                                tasks[t].data.appointmentDate,
                                tasks[t].data.appointmentTime,
                                tasks[t].data.duration, NoId),
                   TRUE)
    /\ tasks' = Remove(tasks, t)
    /\ UNCHANGED <<clinics, users, clinicAccesses, patients, medicalRecords, products,
                   invoiceItems, invoices, payments>>

\* createAppointment calls of clinic c1 whose database calls interleave; every
\* booking names a veterinarian and a positive or absent duration
NextAppointmentsConcurrent ==
    \/ \E t \in TaskIds, patientId \in PatientIds, veterinarianId \in UserIds,
          appointmentTime \in Times, duration \in {None, <<60>>} :
          createAppointmentCheck(t, "c1", patientId, veterinarianId, "d1",
                                 appointmentTime, duration)
    \/ \E t \in TaskIds : createAppointmentCreate(t)
    \/ \E id \in AppointmentIds : deleteAppointment(id, "c1")

SpecAppointmentsConcurrent == InitAppointments /\ [][NextAppointmentsConcurrent]_vars

\* C23: of createAppointment requests for one veterinarian and date whose
\* intervals overlap, at most one creates its appointment, whatever the
\* interleaving: no two stored appointments of a veterinarian on a date overlap
C23_OneOfOverlappingCreates ==
    \A i, j \in DOMAIN appointments :
        (/\ i # j
         /\ appointments[i].veterinarianId = appointments[j].veterinarianId
         /\ appointments[i].appointmentDate = appointments[j].appointmentDate)
        => ~RuleOverlaps(ParseMinutes(appointments[i].appointmentTime),
                         ParseMinutes(appointments[i].appointmentTime)
                             + appointments[i].duration,
                         ParseMinutes(appointments[j].appointmentTime),
                         ParseMinutes(appointments[j].appointmentTime)
                             + appointments[j].duration)

----------------------------------------------------------------------------
(* InvoiceController.addPayment against InvoiceService.createPayment *)

\* what InvoiceService.createPayment, run alone on the present rows, answers
\* and leaves behind: 404 or 400 and no write, or the SUCCESS payment and the
\* invoice with newStatus
createPayment(invoiceId, amount) ==
    IF invoiceId \notin DOMAIN invoices
    THEN [accepted |-> FALSE, invoices |-> invoices, payments |-> payments]
    ELSE LET invoice == invoices[invoiceId]
             paidAmount == PaidAmount(payments, invoiceId)
         IN IF amount > invoice.totalAmount - paidAmount
            THEN [accepted |-> FALSE, invoices |-> invoices, payments |-> payments]
            ELSE [accepted |-> TRUE,
                  invoices |-> [invoices EXCEPT ![invoiceId].status =
                                   NewStatus(invoice.status, invoice.totalAmount,
                                             paidAmount + amount)],
                  payments |-> Insert(payments, LeastOf(UnusedPaymentIds),
                                      [invoiceId |-> invoiceId, amount |-> amount,
                                       status |-> "SUCCESS"])]

\* C24: on the same invoice, prior payments and amount, addPayment accepts or
\* rejects the payment as createPayment does and leaves the same invoice
\* status and the same payments
C24_AddPaymentAsCreatePayment ==
    [][\A id \in InvoiceIds, amount \in AmountInputs :
          addPayment(id, amount) =>
              /\ (last'.code = 201) = createPayment(id, amount).accepted
              /\ invoices' = createPayment(id, amount).invoices
              /\ payments' = createPayment(id, amount).payments]_vars

====
